---- MODULE Spec2Model ----
(***************************************************************************)
(* txstatsd: the message processor of txstatsd/server/processor.py         *)
(* (parse, route, accumulate, flush) as a state machine.                   *)
(*                                                                         *)
(* Messages are sequences of one-character strings, so that the parsing    *)
(* the code does (strip, split, regular expressions, float()) is computed  *)
(* rather than assumed.  Python floats are modelled as exact rationals     *)
(* <<numerator, denominator>> in lowest terms with a positive denominator. *)
(***************************************************************************)
EXTENDS Integers, Sequences, FiniteSets, TLC

VARIABLES
    legacy_namespace, delete_idle_counters, lightweight_mode,
    counter_metrics, timer_metrics, gauge_metrics, meter_metrics,
    plugin_metrics, process_timings, by_type,
    last_flush_duration, last_process_duration,
    lastop, raised, failed, output, flush_args,
    pending, contrib, last_gauge, traffic, flushed, before, lastkey,
    ingested,
    histogram, calls, cleared, called,
    wire, collected, rounds,
    options,
    gen, owed

config == <<legacy_namespace, delete_idle_counters, lightweight_mode>>
accumulators == <<counter_metrics, timer_metrics, gauge_metrics,
                  meter_metrics, plugin_metrics>>
self_metrics == <<process_timings, by_type,
                  last_flush_duration, last_process_duration>>
observed == <<lastop, raised, failed, output, flush_args>>
history == <<pending, contrib, last_gauge, traffic, flushed, before, lastkey,
             ingested>>
processor == <<config, accumulators, self_metrics, observed, history>>
\* a TimerMetricReporter: its histogram and its meter; cleared tells
\* whether clear() was called since construction, called is its last call
reporter == <<histogram, calls, cleared, called>>
\* the stat collector: the messages it sent that are still on their way to
\* the processor, what its last report_stats did, and how often it ran
collector == <<wire, collected, rounds>>
\* the service's options object: the parameters it declares, the config
\* file on disk, and the command line it has parsed
service == <<options>>
\* a flush() generator that is consumed step by step, and for each counter
\* key the contributions accepted and not yet reported by a count sample
lazy == <<gen, owed>>
vars == <<processor, reporter, collector, service, lazy>>

(***************************************************************************)
(* Bounds of the model.                                                    *)
(***************************************************************************)
\* messages handed to process() between two flushes
MaxPending == 2
\* marks one meter takes over a run (a meter is never reset)
MaxMeterCount == 1

(***************************************************************************)
(* Rationals.                                                              *)
(***************************************************************************)
Abs(n) == IF n < 0 THEN -n ELSE n

RECURSIVE GCD(_, _)
GCD(a, b) == IF b = 0 THEN a ELSE GCD(b, a % b)

\* the rational n/d (d # 0) in lowest terms
Rat(n, d) ==
    LET g == GCD(Abs(n), Abs(d))
        s == IF d < 0 THEN -1 ELSE 1
    IN  <<(s * n) \div g, (s * d) \div g>>

Zero == Rat(0, 1)
RInt(n) == Rat(n, 1)
RAdd(x, y) == Rat(x[1] * y[2] + y[1] * x[2], x[2] * y[2])
RMul(x, y) == Rat(x[1] * y[1], x[2] * y[2])
RIsZero(x) == x[1] = 0
\* x / y for y # 0
RDiv(x, y) == Rat(x[1] * y[2], x[2] * y[1])
RLess(x, y) == x[1] * y[2] < y[1] * x[2]

\* Python 2 round() of a rational then int(): half away from zero
RoundInt(x) ==
    IF x[1] >= 0 THEN (2 * x[1] + x[2]) \div (2 * x[2])
    ELSE -((2 * (-x[1]) + x[2]) \div (2 * x[2]))

\* int() of a non-negative rational: truncation
Trunc(x) == x[1] \div x[2]

RECURSIVE RSum(_)
RSum(s) == IF s = <<>> THEN Zero ELSE RAdd(Head(s), RSum(Tail(s)))

(***************************************************************************)
(* Character sequences.                                                    *)
(***************************************************************************)
Whitespace == {" ", "\t", "\n", "\r"}
Digits == {"0", "1", "2", "3", "4", "5", "6", "7", "8", "9"}
Letters == {"a", "b", "c", "d", "e", "f", "g", "h", "i", "j", "k", "l", "m",
            "n", "o", "p", "q", "r", "s", "t", "u", "v", "w", "x", "y", "z",
            "A", "B", "C", "D", "E", "F", "G", "H", "I", "J", "K", "L", "M",
            "N", "O", "P", "Q", "R", "S", "T", "U", "V", "W", "X", "Y", "Z"}

DigitVal(c) ==
    CASE c = "0" -> 0 [] c = "1" -> 1 [] c = "2" -> 2 [] c = "3" -> 3
      [] c = "4" -> 4 [] c = "5" -> 5 [] c = "6" -> 6 [] c = "7" -> 7
      [] c = "8" -> 8 [] c = "9" -> 9

Contains(s, c) == \E i \in DOMAIN s : s[i] = c
IndexOf(s, c) == CHOOSE i \in DOMAIN s : s[i] = c /\ \A j \in 1..(i - 1) : s[j] # c
From(s, i) == SubSeq(s, i, Len(s))

\* the characters of a sequence as one string
RECURSIVE Join(_)
Join(s) == IF s = <<>> THEN "" ELSE Head(s) \o Join(Tail(s))

\* str.strip()
RECURSIVE LStrip(_)
LStrip(s) == IF s # <<>> /\ Head(s) \in Whitespace THEN LStrip(Tail(s)) ELSE s
RECURSIVE RStrip(_)
RStrip(s) ==
    IF s # <<>> /\ s[Len(s)] \in Whitespace THEN RStrip(SubSeq(s, 1, Len(s) - 1))
    ELSE s
Strip(s) == RStrip(LStrip(s))

\* str.split(sep)
RECURSIVE Split(_, _)
Split(s, sep) ==
    IF ~Contains(s, sep) THEN <<s>>
    ELSE LET i == IndexOf(s, sep)
         IN  <<SubSeq(s, 1, i - 1)>> \o Split(From(s, i + 1), sep)

\* str.split(sep, 1) of a string that contains sep
SplitOnce(s, sep) ==
    LET i == IndexOf(s, sep) IN <<SubSeq(s, 1, i - 1), From(s, i + 1)>>

\* the longest prefix of s made of characters of cs, and what follows it
RECURSIVE TakeWhile(_, _)
TakeWhile(s, cs) ==
    IF s # <<>> /\ Head(s) \in cs THEN <<Head(s)>> \o TakeWhile(Tail(s), cs)
    ELSE <<>>
RECURSIVE DropWhile(_, _)
DropWhile(s, cs) ==
    IF s # <<>> /\ Head(s) \in cs THEN DropWhile(Tail(s), cs) ELSE s

\* re.sub of the pattern [cs]+ by the character rep
SubEach(s, cs, rep) == [i \in DOMAIN s |-> IF s[i] \in cs THEN rep ELSE s[i]]
RECURSIVE SubRuns(_, _, _)
SubRuns(s, cs, rep) ==
    IF s = <<>> THEN <<>>
    ELSE IF Head(s) \in cs THEN <<rep>> \o SubRuns(DropWhile(s, cs), cs, rep)
    ELSE <<Head(s)>> \o SubRuns(Tail(s), cs, rep)

\* re.sub of the pattern [^cs] by the empty string
RECURSIVE Keep(_, _)
Keep(s, cs) ==
    IF s = <<>> THEN <<>>
    ELSE IF Head(s) \in cs THEN <<Head(s)>> \o Keep(Tail(s), cs)
    ELSE Keep(Tail(s), cs)

(***************************************************************************)
(* processor.py: the module-level patterns and normalize_key.              *)
(***************************************************************************)
SPACES == Whitespace
SLASHES == {"/"}
NON_ALNUM == Letters \cup Digits \cup {"_", "-", "."}
RATE == Digits \cup {"."}

normalize_key(key) ==
    Keep(SubRuns(SubRuns(key, SPACES, "_"), SLASHES, "-"), NON_ALNUM)

\* RATE.match(field): group(1) of ^@([\d\.]+), or <<>> when there is no match
RateMatch(field) ==
    IF field # <<>> /\ Head(field) = "@" THEN TakeWhile(Tail(field), RATE)
    ELSE <<>>

(***************************************************************************)
(* float(token) for decimal literals: [sign] digits [. digits], with       *)
(* surrounding whitespace allowed; anything else is a ValueError.  The     *)
(* result is [ok |-> parsed?, val |-> the number].                         *)
(***************************************************************************)
RECURSIVE DigitsVal(_)
DigitsVal(s) ==
    IF s = <<>> THEN 0
    ELSE 10 * DigitsVal(SubSeq(s, 1, Len(s) - 1)) + DigitVal(s[Len(s)])

RECURSIVE Pow10(_)
Pow10(n) == IF n = 0 THEN 1 ELSE 10 * Pow10(n - 1)

ParseFloat(token) ==
    LET t == Strip(token)
        signed == t # <<>> /\ Head(t) \in {"+", "-"}
        body == IF signed THEN Tail(t) ELSE t
        whole == TakeWhile(body, Digits)
        rest == DropWhile(body, Digits)
        dotted == rest # <<>> /\ Head(rest) = "."
        frac == IF dotted THEN Tail(rest) ELSE rest
        wellformed == /\ \A i \in DOMAIN frac : frac[i] \in Digits
                      /\ (rest = <<>> \/ dotted)
                      /\ Len(whole) + Len(frac) > 0
        magnitude == Rat(DigitsVal(whole) * Pow10(Len(frac)) + DigitsVal(frac),
                         Pow10(Len(frac)))
    IN  IF ~wellformed THEN [ok |-> FALSE, val |-> Zero]
        ELSE IF signed /\ Head(t) = "-"
             THEN [ok |-> TRUE, val |-> Rat(-magnitude[1], magnitude[2])]
        ELSE [ok |-> TRUE, val |-> magnitude]

(***************************************************************************)
(* Dictionaries are functions on a finite set of keys.                     *)
(***************************************************************************)
EmptyDict == <<>>
Put(d, k, v) == [x \in DOMAIN d \cup {k} |-> IF x = k THEN v ELSE d[x]]
setdefault(d, k, v) == IF k \in DOMAIN d THEN d ELSE Put(d, k, v)

(***************************************************************************)
(* time_function is a parameter of the constructor.  A clock reading t     *)
(* counts half seconds, Seconds(t) is what time_function returns; every    *)
(* call within one handler returns the same reading.                       *)
(***************************************************************************)
Seconds(t) == Rat(t, 2)
Clock == {1999, 2000}

NoError == "none"

(***************************************************************************)
(* MeterMetricReporter (txstatsd/metrics/metermetric.py): count of marks   *)
(* and the construction time.                                              *)
(***************************************************************************)
MeterMetricReporter(t) == [count |-> Zero, start_time |-> t]
mark(meter, value) == [meter EXCEPT !.count = RAdd(@, value)]

(***************************************************************************)
(* The plugin table given to the constructor: one factory, of wire type    *)
(* "p"; its metric counts the calls of process() since its last flush.     *)
(***************************************************************************)
plugins == {"p"}
PluginName == "plug"
build_metric == 0
plugin_process(metric, items) == metric + 1

(***************************************************************************)
(* MessageProcessor: the handlers of one message.  Each returns the new    *)
(* accumulator map, whether fail() was called, and the exception raised.   *)
(***************************************************************************)
Handled(map, fail, exc) == [map |-> map, failed |-> fail, exc |-> exc]

ComposeTimerAlone(tm, key, duration) ==
    [k \in {key} |-> IF key \in DOMAIN tm THEN Append(tm[key], duration)
                     ELSE <<duration>>]
compose_timer_metric(tm, key, duration) ==
    LET tm1 == setdefault(tm, key, <<>>)
    IN  [tm1 EXCEPT ![key] = Append(@, duration)]

process_timer_metric(tm, key, duration) ==
    LET d == ParseFloat(duration)
    IN  IF ~d.ok THEN Handled(tm, TRUE, NoError)
        ELSE Handled(compose_timer_metric(tm, key, d.val), FALSE, NoError)

\* value * (1 / float(rate))
ScaledByRate(value, rate) == RMul(value, rate)
Scaled(value, rate) == RMul(value, RDiv(RInt(1), rate))

\* rate is the text of the rate; float(rate) and the division can raise
\* after the entry has been created
compose_counter_metric(cm, key, value, rate) ==
    LET cm1 == setdefault(cm, key, Zero)
        r == ParseFloat(rate)
    IN  IF ~r.ok THEN Handled(cm1, FALSE, "ValueError")
        ELSE IF RIsZero(r.val) THEN Handled(cm1, FALSE, "ZeroDivisionError")
        ELSE Handled([cm1 EXCEPT ![key] =
                         RAdd(@, Scaled(value, r.val))],
                     FALSE, NoError)

process_counter_metric(cm, key, composite) ==
    LET value == ParseFloat(composite[1])
        match == IF Len(composite) = 3 THEN RateMatch(composite[3]) ELSE <<>>
    IN  IF ~value.ok THEN Handled(cm, TRUE, NoError)
        ELSE IF Len(composite) = 3 /\ match = <<>> THEN Handled(cm, TRUE, NoError)
        ELSE compose_counter_metric(cm, key, value.val,
                 IF Len(composite) = 3 THEN match ELSE <<"1">>)

ComposeGaugeFirst(gm, key, value) == setdefault(gm, key, value)
compose_gauge_metric(gm, key, value) == Put(gm, key, value)

\* a value that does not parse is reported by fail() and then used unbound
process_gauge_metric(gm, key, composite) ==
    LET values == Split(composite, ":")
        value == ParseFloat(values[1])
    IN  IF Len(values) # 1 THEN Handled(gm, TRUE, NoError)
        ELSE IF ~value.ok THEN Handled(gm, TRUE, "UnboundLocalError")
        ELSE Handled(compose_gauge_metric(gm, key, value.val), FALSE, NoError)

compose_meter_metric(mm, key, value, t) ==
    LET mm1 == setdefault(mm, key, MeterMetricReporter(t))
    IN  [mm1 EXCEPT ![key] = mark(@, value)]

process_meter_metric(mm, key, composite, t) ==
    LET values == Split(composite, ":")
        value == ParseFloat(values[1])
    IN  IF Len(values) # 1 THEN Handled(mm, TRUE, NoError)
        ELSE IF ~value.ok THEN Handled(mm, TRUE, "UnboundLocalError")
        ELSE Handled(compose_meter_metric(mm, key, value.val, t), FALSE, NoError)

process_plugin_metric(pm, metric_type, key, items) ==
    LET pm1 == setdefault(pm, key, build_metric)
    IN  Handled([pm1 EXCEPT ![key] = plugin_process(@, items)], FALSE, NoError)

(***************************************************************************)
(* BaseMessageProcessor.process, up to the call of process_message: the    *)
(* message is split into key and fields, or fails.                         *)
(***************************************************************************)
Routed(message) ==
    IF ~Contains(message, ":") THEN [ok |-> FALSE]
    ELSE LET kd == SplitOnce(Strip(message), ":")
             fields == Split(kd[2], "|")
         IN  IF ~Contains(kd[2], "|") THEN [ok |-> FALSE]
             ELSE IF Len(fields) < 2 \/ Len(fields) > 3 THEN [ok |-> FALSE]
             ELSE [ok |-> TRUE, key |-> Join(normalize_key(kd[1])),
                   metric_type |-> Join(fields[2]), fields |-> fields,
                   raw |-> kd[1]]

\* the accumulator maps after process_message; counted tells whether the
\* self-metrics lines (152-155) were reached
Processed(cm, tm, gm, mm, pm, h, counted) ==
    [cm |-> cm, tm |-> tm, gm |-> gm, mm |-> mm, pm |-> pm,
     failed |-> h.failed, exc |-> h.exc,
     counted |-> counted /\ h.exc = NoError]

process_message(metric_type, key, fields, t) ==
    LET cm == counter_metrics
        tm == timer_metrics
        gm == gauge_metrics
        mm == meter_metrics
        pm == plugin_metrics
    IN  IF metric_type = "c" THEN
            LET h == process_counter_metric(cm, key, fields)
            IN  Processed(h.map, tm, gm, mm, pm, h, TRUE)
        ELSE IF metric_type = "ms" THEN
            LET h == process_timer_metric(tm, key, fields[1])
            IN  Processed(cm, h.map, gm, mm, pm, h, TRUE)
        ELSE IF metric_type = "g" THEN
            LET h == process_gauge_metric(gm, key, fields[1])
            IN  Processed(cm, tm, h.map, mm, pm, h, TRUE)
        ELSE IF metric_type = "m" THEN
            LET h == process_meter_metric(mm, key, fields[1], t)
            IN  Processed(cm, tm, gm, h.map, pm, h, TRUE)
        ELSE IF metric_type \in plugins THEN
            LET h == process_plugin_metric(pm, metric_type, key, fields)
            IN  Processed(cm, tm, gm, mm, h.map, h, TRUE)
        ELSE Processed(cm, tm, gm, mm, pm, Handled(<<>>, TRUE, NoError), FALSE)

\* what process(message) does to the processor when the clock reads t at
\* its start
Outcome(message, t) ==
    LET r == Routed(message)
    IN  IF ~r.ok
        THEN Processed(counter_metrics, timer_metrics, gauge_metrics,
                       meter_metrics, plugin_metrics,
                       Handled(<<>>, TRUE, NoError), FALSE)
        ELSE process_message(r.metric_type, r.key, r.fields, t)

\* the message was taken: no fail(), no exception
Accepted(o) == ~o.failed /\ o.exc = NoError

(***************************************************************************)
(* History of the run, kept beside the program's state to state the        *)
(* properties: what was sent since the last flush.                         *)
(***************************************************************************)
NoFlush == [flushed |-> FALSE]
NoKey == <<>>

\* the contribution of an accepted counter message: value * (1 / rate)
Contribution(fields) ==
    LET value == ParseFloat(fields[1]).val
        rate == IF Len(fields) = 3 THEN ParseFloat(RateMatch(fields[3])).val
                ELSE RInt(1)
    IN  RMul(value, RDiv(RInt(1), rate))

MsgA1 == <<"a", ":", "1", "|", "c">>

TrafficAfter(message, r, o) ==
    IF r.ok /\ r.metric_type = "c"
    THEN IF traffic = "none" /\ message = MsgA1 /\ Accepted(o) THEN "one a:1|c"
         ELSE "other"
    ELSE traffic

(***************************************************************************)
(* process(message) when the clock reads now.                              *)
(***************************************************************************)
process(message, now) ==
    \E r \in {Routed(message)} : \E o \in {Outcome(message, now)} :
    \E t \in {IF r.ok THEN r.metric_type ELSE ""} :
        /\ \A k \in DOMAIN o.mm :
               /\ ~RLess(RInt(MaxMeterCount), o.mm[k].count)
               /\ ~RLess(o.mm[k].count, RInt(-MaxMeterCount))
        /\ counter_metrics' = o.cm
        /\ timer_metrics' = o.tm
        /\ gauge_metrics' = o.gm
        /\ meter_metrics' = o.mm
        /\ plugin_metrics' = o.pm
        /\ IF o.counted
           THEN /\ process_timings' =
                       [setdefault(process_timings, t, Zero) EXCEPT
                           ![t] = RAdd(@, Seconds(now - now))]
                /\ by_type' = [setdefault(by_type, t, 0) EXCEPT ![t] = @ + 1]
           ELSE UNCHANGED <<process_timings, by_type>>
        /\ lastop' = "process"
        /\ raised' = o.exc
        /\ failed' = o.failed
        /\ output' = <<>>
        /\ flush_args' = <<>>
        /\ pending' = pending + 1
        /\ contrib' = IF r.ok /\ r.metric_type = "c" /\ Accepted(o)
                      THEN [setdefault(contrib, r.key, Zero) EXCEPT
                               ![r.key] = RAdd(@, Contribution(r.fields))]
                      ELSE contrib
        /\ last_gauge' = IF r.ok /\ r.metric_type = "g" /\ Accepted(o)
                         THEN Put(last_gauge, r.key, ParseFloat(r.fields[1]).val)
                         ELSE last_gauge
        /\ traffic' = TrafficAfter(message, r, o)
        /\ ingested' = IF r.ok /\ Accepted(o)
                       THEN [setdefault(ingested, t, 0) EXCEPT ![t] = @ + 1]
                       ELSE ingested
        /\ before' = NoFlush
        /\ UNCHANGED <<config, last_flush_duration, last_process_duration,
                       flushed, reporter>>

(***************************************************************************)
(* MessageProcessor.__init__: the prefixes of the two namespaces.  The     *)
(* processor is built with message_prefix "app" and                        *)
(* internal_metrics_prefix "app.internal.".                                *)
(***************************************************************************)
message_prefix == "app"
StatsPrefixConfigured == message_prefix \o "."
stats_prefix == IF legacy_namespace THEN "stats." ELSE message_prefix \o "."
internal_metrics_prefix ==
    IF legacy_namespace THEN "statsd." ELSE "app.internal."
count_prefix ==
    IF legacy_namespace THEN "stats_counts." ELSE stats_prefix \o "counters."
timer_prefix == stats_prefix \o "timers."
gauge_prefix ==
    IF legacy_namespace THEN stats_prefix \o "gauge." ELSE stats_prefix \o "gauges."

(***************************************************************************)
(* Flush.  A sample is <<name, value, timestamp>>; a flush_* generator     *)
(* yields one batch of samples per key.  Each returns the map it leaves,   *)
(* the batches it yielded and the exception that ended it.                 *)
(***************************************************************************)
Sample(name, value, timestamp) == <<name, value, timestamp>>
Flushed(map, out, exc) == [map |-> map, out |-> out, exc |-> exc]

\* the keys of a dictionary in the order iteritems() visits them
Iter(d, order) == SelectSeq(order, LAMBDA k : k \in DOMAIN d)

RECURSIVE Insert(_, _)
Insert(s, x) ==
    IF s = <<>> THEN <<x>>
    ELSE IF RLess(x, Head(s)) THEN <<x>> \o s
    ELSE <<Head(s)>> \o Insert(Tail(s), x)

\* list.sort()
RECURSIVE Sorted(_)
Sorted(s) == IF s = <<>> THEN <<>> ELSE Insert(Sorted(Tail(s)), Head(s))

RECURSIVE Flatten(_)
Flatten(batches) ==
    IF batches = <<>> THEN <<>> ELSE Head(batches) \o Flatten(Tail(batches))

\* self.counter_metrics[key] = 0
ResetSkipped(cm, key) == cm
Reset(cm, key) == [cm EXCEPT ![key] = Zero]

\* yield output[1:2] in lightweight mode, output otherwise
BatchRateOnly(out) == IF lightweight_mode THEN SubSeq(out, 1, 1) ELSE out
Batch(out) == IF lightweight_mode THEN SubSeq(out, 2, 2) ELSE out

\* if self.delete_idle_counters: self.counter_metrics = {}
ClearedNever(cm) == cm
Cleared(cm) == IF delete_idle_counters THEN EmptyDict ELSE cm

\* interval is in seconds, already divided
RECURSIVE flush_counter_metrics(_, _, _, _)
flush_counter_metrics(cm, keys, interval, timestamp) ==
    IF keys = <<>>
    THEN Flushed(Cleared(cm), <<>>, NoError)
    ELSE LET key == Head(keys)
             count == cm[key]
             cm1 == Reset(cm, key)
         IN  IF interval = 0 THEN Flushed(cm1, <<>>, "ZeroDivisionError")
             ELSE LET value == RDiv(count, RInt(interval))
                      out == IF ~legacy_namespace
                             THEN <<Sample(count_prefix \o key \o ".rate",
                                           value, timestamp),
                                    Sample(count_prefix \o key \o ".count",
                                           count, timestamp)>>
                             ELSE <<Sample(stats_prefix \o key, value, timestamp),
                                    Sample(count_prefix \o key, count, timestamp)>>
                      batch == Batch(out)
                      rest == flush_counter_metrics(cm1, Tail(keys), interval,
                                                    timestamp)
                  IN  Flushed(rest.map, <<batch>> \o rest.out, rest.exc)

\* the batch of one timer key, sorted by name; timers is sorted and index
\* is at least 1
TimerItems(key, timers, index, percent, timestamp) ==
    LET kept == SubSeq(timers, 1, index)
        count == Len(timers)
        name == timer_prefix \o key
    IN  (IF lightweight_mode THEN <<>>
         ELSE <<Sample(name \o ".count", RInt(count), timestamp)>>)
        \o <<Sample(name \o ".lower", timers[1], timestamp),
             Sample(name \o ".mean", RDiv(RSum(kept), RInt(index)), timestamp),
             Sample(name \o ".upper", timers[count], timestamp),
             Sample(name \o ".upper_" \o ToString(percent), kept[index],
                    timestamp)>>

\* index = count - int(round(threshold_value * count))
TimerIndexAll(count, percent) == count
TimerIndex(count, percent) ==
    count - RoundInt(RMul(Rat(100 - percent, 100), RInt(count)))

\* self.timer_metrics[key] = []
Emptied(tm, key) == [tm EXCEPT ![key] = <<>>]

RECURSIVE flush_timer_metrics(_, _, _, _)
flush_timer_metrics(tm, keys, percent, timestamp) ==
    IF keys = <<>> THEN Flushed(tm, <<>>, NoError)
    ELSE LET key == Head(keys)
             timers == Sorted(tm[key])
             count == Len(timers)
             tm1 == Emptied(tm, key)
             index == IF count > 1 THEN TimerIndex(count, percent) ELSE 1
         IN  IF count = 0
             THEN flush_timer_metrics(tm, Tail(keys), percent, timestamp)
             ELSE IF index = 0 THEN Flushed(tm1, <<>>, "IndexError")
             ELSE LET batch == TimerItems(key, timers, index, percent, timestamp)
                      rest == flush_timer_metrics(tm1, Tail(keys), percent,
                                                  timestamp)
                  IN  Flushed(rest.map, <<batch>> \o rest.out, rest.exc)

flush_gauge_metrics(gm, keys, timestamp) ==
    Flushed(gm,
            [i \in DOMAIN keys |->
                <<Sample(gauge_prefix \o keys[i] \o ".value", gm[keys[i]],
                         timestamp)>>],
            NoError)

\* MeterMetricReporter.mean_rate() when the clock reads t
mean_rate(meter, t) ==
    IF t = meter.start_time THEN Zero
    ELSE RDiv(meter.count, Seconds(t - meter.start_time))

\* MeterMetricReporter.report(timestamp): no tick has happened, the three
\* window rates read 0
report(key, meter, timestamp, t) ==
    LET name == "stats.meter." \o key
    IN  <<Sample(name \o ".count", meter.count, timestamp),
          Sample(name \o ".mean_rate", mean_rate(meter, t), timestamp),
          Sample(name \o ".1minute_rate", Zero, timestamp),
          Sample(name \o ".5minute_rate", Zero, timestamp),
          Sample(name \o ".15minute_rate", Zero, timestamp)>>

flush_meter_metrics(mm, keys, timestamp, t) ==
    Flushed(mm,
            [i \in DOMAIN keys |-> report(keys[i], mm[keys[i]], timestamp, t)],
            NoError)

get_message_prefix(kind) == "stats." \o kind

\* the plugin metric's flush(interval, timestamp): one sample, and it
\* starts counting again
plugin_flush(key, metric, interval, timestamp) ==
    <<Sample(get_message_prefix(PluginName) \o "." \o key, RInt(metric),
             timestamp)>>

flush_plugin_metrics(pm, keys, interval, timestamp) ==
    Flushed([k \in DOMAIN pm |-> build_metric],
            [i \in DOMAIN keys |->
                plugin_flush(keys[i], pm[keys[i]], interval, timestamp)],
            NoError)

\* the categories in the order flush() fills per_metric, and the wire
\* types in the order the summary reports them
Categories == <<"counter", "timer", "gauge", "meter", "plugin">>
Types == <<"c", "ms", "g", "m", "p">>

Millis(seconds) == RMul(seconds, RInt(1000))

\* the batches of flush_metrics_summary; per_metric[i] is <<events, duration>>
flush_metrics_summary(num_stats, per_metric, timestamp) ==
    LET seen == Iter(process_timings, Types)
    IN  <<<<Sample(internal_metrics_prefix \o "numStats", RInt(num_stats),
                   timestamp)>>>>
        \o [i \in DOMAIN Categories |->
               <<Sample(internal_metrics_prefix \o "flush." \o Categories[i]
                            \o ".count",
                        RInt(per_metric[i][1]), timestamp),
                 Sample(internal_metrics_prefix \o "flush." \o Categories[i]
                            \o ".duration",
                        Millis(per_metric[i][2]), timestamp)>>]
        \o [i \in DOMAIN seen |->
               <<Sample(internal_metrics_prefix \o "receive." \o seen[i]
                            \o ".count",
                        RInt(by_type[seen[i]]), timestamp),
                 Sample(internal_metrics_prefix \o "receive." \o seen[i]
                            \o ".duration",
                        Millis(process_timings[seen[i]]), timestamp)>>]

\* the samples in the order flush() yields them: counters, timers, gauges,
\* meters, plugins, summary
YieldedGaugesFirst(c, t, g, m, p, s) ==
    Flatten(g \o c \o t \o m \o p \o s)
Yielded(c, t, g, m, p, s) ==
    Flatten(c \o t \o g \o m \o p \o s)

(***************************************************************************)
(* flush(interval, percent), consumed to its end, when the clock reads     *)
(* now.  order is the order in which the dictionaries are iterated.        *)
(***************************************************************************)
Skipped(map, exc) == Flushed(map, <<>>, exc)

flush(interval_ms, percent, order, now) ==
    \E interval \in {interval_ms \div 1000} :
    \E timestamp \in {Trunc(Seconds(now))} :
    \E c \in {flush_counter_metrics(counter_metrics,
                                    Iter(counter_metrics, order), interval,
                                    timestamp)} :
    \E t \in {IF c.exc = NoError
              THEN flush_timer_metrics(timer_metrics,
                                       Iter(timer_metrics, order), percent,
                                       timestamp)
              ELSE Skipped(timer_metrics, c.exc)} :
    \E g \in {IF t.exc = NoError
              THEN flush_gauge_metrics(gauge_metrics,
                                       Iter(gauge_metrics, order), timestamp)
              ELSE Skipped(gauge_metrics, t.exc)} :
    \E m \in {IF t.exc = NoError
              THEN flush_meter_metrics(meter_metrics,
                                       Iter(meter_metrics, order), timestamp,
                                       now)
              ELSE Skipped(meter_metrics, t.exc)} :
    \E p \in {IF t.exc = NoError
              THEN flush_plugin_metrics(plugin_metrics,
                                        Iter(plugin_metrics, order), interval,
                                        timestamp)
              ELSE Skipped(plugin_metrics, t.exc)} :
    \E duration \in {Seconds(now - now)} :
    \E per_metric \in {<<<<Len(c.out), duration>>, <<Len(t.out), duration>>,
                         <<Len(g.out), duration>>, <<Len(m.out), duration>>,
                         <<Len(p.out), duration>>>>} :
    \E num_stats \in {Len(c.out) + Len(t.out) + Len(g.out) + Len(m.out)
                          + Len(p.out)} :
    \E s \in {IF t.exc = NoError
              THEN flush_metrics_summary(num_stats, per_metric, timestamp)
              ELSE <<>>} :
        /\ counter_metrics' = c.map
        /\ timer_metrics' = t.map
        /\ gauge_metrics' = g.map
        /\ meter_metrics' = m.map
        /\ plugin_metrics' = p.map
        /\ IF t.exc = NoError
           THEN /\ process_timings' = EmptyDict
                /\ by_type' = EmptyDict
                /\ last_flush_duration' =
                       RSum([i \in DOMAIN per_metric |-> per_metric[i][2]])
                /\ last_process_duration' =
                       RSum([i \in DOMAIN Iter(process_timings, Types) |->
                                process_timings[Iter(process_timings, Types)[i]]])
           ELSE UNCHANGED self_metrics
        /\ lastop' = "flush"
        /\ raised' = t.exc
        /\ failed' = FALSE
        /\ output' = Yielded(c.out, t.out, g.out, m.out, p.out, s)
        /\ flush_args' = <<interval_ms, percent>>
        /\ IF t.exc = NoError
           THEN /\ pending' = 0
                /\ contrib' = EmptyDict
                /\ traffic' = "none"
                /\ ingested' = EmptyDict
           ELSE UNCHANGED <<pending, contrib, traffic, ingested>>
        /\ flushed' = TRUE
        /\ before' = [flushed |-> TRUE, follows |-> flushed,
                      pending |-> pending, now |-> now,
                      counter_metrics |-> counter_metrics,
                      timer_metrics |-> timer_metrics,
                      gauge_metrics |-> gauge_metrics,
                      meter_metrics |-> meter_metrics,
                      plugin_metrics |-> plugin_metrics,
                      by_type |-> by_type, ingested |-> ingested,
                      contrib |-> contrib, traffic |-> traffic]
        /\ lastkey' = NoKey
        /\ UNCHANGED <<config, last_gauge, reporter, collector, service>>

(***************************************************************************)
(* timermetric.py: TimerMetricReporter.  The histogram and its sample are  *)
(* kept as the number of updates each has counted and the number of        *)
(* entries the sample stores.                                              *)
(***************************************************************************)
ReservoirSize == 1028
\* wall_time_func() when the reporter is built
ReporterStart == CHOOSE now \in Clock : \A other \in Clock : other <= now

\* ExponentiallyDecayingSample.update: an entry is added while the sample
\* has counted no more than its capacity; beyond that an entry is either
\* replaced or the value discarded
SampleOverfilled(sample) ==
    [count |-> sample.count + 1, size |-> sample.size + 1]
sample_update(sample) ==
    [count |-> sample.count + 1,
     size |-> IF sample.count + 1 <= ReservoirSize THEN sample.size + 1
              ELSE sample.size]

HistogramMetricReporter == [count |-> 0, sample |-> [count |-> 0, size |-> 0]]
histogram_update(h) ==
    [count |-> h.count + 1, sample |-> sample_update(h.sample)]

NoCall == [op |-> "none"]
Call(op, duration) ==
    [op |-> op, duration |-> duration, histogram |-> histogram, calls |-> calls]

\* if duration >= 0
RecordedAlways(duration) == TRUE
Recorded(duration) == duration >= 0

update(duration) ==
    /\ IF Recorded(duration)
       THEN /\ histogram' = histogram_update(histogram)
            /\ calls' = mark(calls, RInt(1))
       ELSE UNCHANGED <<histogram, calls>>
    /\ called' = Call("update", duration)
    /\ UNCHANGED <<cleared, processor, collector, service, lazy>>

\* self.meter.tick() moves the rates, not the count
tick ==
    /\ called' = Call("tick", 0)
    /\ UNCHANGED <<histogram, calls, cleared, processor, collector, service,
                   lazy>>

clear ==
    /\ histogram' = HistogramMetricReporter
    /\ cleared' = TRUE
    /\ called' = Call("clear", 0)
    /\ UNCHANGED <<calls, processor, collector, service, lazy>>

(***************************************************************************)
(* process.py: the stat collector.  Texts are character sequences; a       *)
(* function's outcome is [ok |-> returned?, val |-> what it returned]; a   *)
(* number is [int |-> is it a Python int?, val |-> the number]; a dict is  *)
(* the sequence of its (name, value) pairs.                                *)
(***************************************************************************)
MEMINFO_KEYS ==
    {<<"M", "e", "m", "T", "o", "t", "a", "l", ":">>,
     <<"M", "e", "m", "F", "r", "e", "e", ":">>,
     <<"B", "u", "f", "f", "e", "r", "s", ":">>,
     <<"C", "a", "c", "h", "e", "d", ":">>,
     <<"S", "w", "a", "p", "C", "a", "c", "h", "e", "d", ":">>,
     <<"S", "w", "a", "p", "T", "o", "t", "a", "l", ":">>,
     <<"S", "w", "a", "p", "F", "r", "e", "e", ":">>}

MULTIPLIERS == [unit \in {"kB", "mB"} |-> IF unit = "kB" THEN 1024 ELSE 1024 * 1024]

Returned(val) == [ok |-> TRUE, val |-> val]
Raised(error) == [ok |-> FALSE, val |-> error]
PyInt(n) == [int |-> TRUE, val |-> RInt(n)]
PyFloat(x) == [int |-> FALSE, val |-> x]

\* result[name] = value
RECURSIVE SetItem(_, _, _)
SetItem(result, name, value) ==
    IF result = <<>> THEN <<<<name, value>>>>
    ELSE IF Head(result)[1] = name THEN <<<<name, value>>>> \o Tail(result)
    ELSE <<Head(result)>> \o SetItem(Tail(result), name, value)

\* str.split(): the words between runs of whitespace
RECURSIVE Word(_)
Word(s) ==
    IF s = <<>> \/ Head(s) \in Whitespace THEN <<>>
    ELSE <<Head(s)>> \o Word(Tail(s))
RECURSIVE Words(_)
Words(s) ==
    LET t == LStrip(s)
    IN  IF t = <<>> THEN <<>>
        ELSE <<Word(t)>> \o Words(From(t, Len(Word(t)) + 1))

\* int(token) for decimal literals: [sign] digits
ParseInt(token) ==
    LET t == Strip(token)
        signed == t # <<>> /\ Head(t) \in {"+", "-"}
        body == IF signed THEN Tail(t) ELSE t
    IN  IF body = <<>> \/ \E i \in DOMAIN body : body[i] \notin Digits
        THEN Raised("ValueError")
        ELSE IF signed /\ Head(t) = "-" THEN Returned(-DigitsVal(body))
        ELSE Returned(DigitsVal(body))

RECURSIVE MeminfoLines(_, _, _)
MeminfoLines(lines, prefix, result) ==
    IF lines = <<>> THEN Returned(result)
    ELSE LET line == Head(lines)
             parts == SelectSeq(Split(line, " "), LAMBDA x : x # <<>>)
         IN  IF line = <<>> THEN MeminfoLines(Tail(lines), prefix, result)
             ELSE IF parts = <<>> THEN Raised("IndexError")
             ELSE IF parts[1] \notin MEMINFO_KEYS
                  THEN MeminfoLines(Tail(lines), prefix, result)
             ELSE IF Len(parts) = 3 /\ Join(parts[3]) \notin DOMAIN MULTIPLIERS
                  THEN Raised("KeyError")
             ELSE IF Len(parts) < 2 THEN Raised("IndexError")
             ELSE IF ~ParseInt(parts[2]).ok THEN Raised("ValueError")
             ELSE LET multiple == IF Len(parts) = 3
                                  THEN MULTIPLIERS[Join(parts[3])] ELSE 1
                      label == SubSeq(parts[1], 1, Len(parts[1]) - 1)
                      amount == ParseInt(parts[2]).val * multiple
                  IN  MeminfoLines(Tail(lines), prefix,
                                   SetItem(result, prefix \o label, PyInt(amount)))

parse_meminfo(data) == MeminfoLines(Split(data, "\n"), <<"m", "e", "m", "i", "n", "f", "o", ".">>, <<>>)

LoadavgNames ==
    <<<<"l", "o", "a", "d", "a", "v", "g", ".", "o", "n", "e", "m", "i", "n", "u", "t", "e">>,
      <<"l", "o", "a", "d", "a", "v", "g", ".", "f", "i", "v", "e", "m", "i", "n", "u", "t", "e", "s">>,
      <<"l", "o", "a", "d", "a", "v", "g", ".", "f", "i", "f", "t", "h", "t", "e", "e", "n", "m", "i", "n", "u", "t", "e", "s">>>>

parse_loadavg(data) ==
    LET words == Words(data)
        first == SubSeq(words, 1, IF Len(words) < 3 THEN Len(words) ELSE 3)
    IN  IF \E i \in DOMAIN first : ~ParseFloat(first[i]).ok
        THEN Raised("ValueError")
        ELSE Returned([i \in DOMAIN first |->
                          <<LoadavgNames[i], PyFloat(ParseFloat(first[i]).val)>>])

\* psutil either raises or gives its readings
Unavailable == [available |-> FALSE]

report_self_stat(readings) ==
    IF ~readings.available THEN Raised("psutil")
    ELSE Returned(
        <<<<<<"s", "e", "l", "f", ".", "s", "t", "a", "t", ".", "c", "p", "u", ".", "p", "e", "r", "c", "e", "n", "t">>, PyFloat(readings.cpu_percent)>>,
          <<<<"s", "e", "l", "f", ".", "s", "t", "a", "t", ".", "c", "p", "u", ".", "u", "s", "e", "r">>, PyFloat(readings.utime)>>,
          <<<<"s", "e", "l", "f", ".", "s", "t", "a", "t", ".", "c", "p", "u", ".", "s", "y", "s", "t", "e", "m">>, PyFloat(readings.stime)>>,
          <<<<"s", "e", "l", "f", ".", "s", "t", "a", "t", ".", "m", "e", "m", "o", "r", "y", ".", "p", "e", "r", "c", "e", "n", "t">>, PyFloat(readings.memory_percent)>>,
          <<<<"s", "e", "l", "f", ".", "s", "t", "a", "t", ".", "m", "e", "m", "o", "r", "y", ".", "v", "s", "i", "z", "e">>, PyInt(readings.vsize)>>,
          <<<<"s", "e", "l", "f", ".", "s", "t", "a", "t", ".", "m", "e", "m", "o", "r", "y", ".", "r", "s", "s">>, PyInt(readings.rss)>> >>)

report_system_stat(cpu_times) ==
    IF ~cpu_times.available THEN Raised("psutil")
    ELSE Returned(
        <<<<<<"s", "t", "a", "t", ".", "c", "p", "u", ".", "i", "d", "l", "e">>, PyFloat(cpu_times.idle)>>,
          <<<<"s", "t", "a", "t", ".", "c", "p", "u", ".", "i", "o", "w", "a", "i", "t">>, PyFloat(cpu_times.iowait)>>,
          <<<<"s", "t", "a", "t", ".", "c", "p", "u", ".", "i", "r", "q">>, PyFloat(cpu_times.irq)>>,
          <<<<"s", "t", "a", "t", ".", "c", "p", "u", ".", "n", "i", "c", "e">>, PyFloat(cpu_times.nice)>>,
          <<<<"s", "t", "a", "t", ".", "c", "p", "u", ".", "s", "y", "s", "t", "e", "m">>, PyFloat(cpu_times.system)>>,
          <<<<"s", "t", "a", "t", ".", "c", "p", "u", ".", "u", "s", "e", "r">>, PyFloat(cpu_times.user)>> >>)

None == <<>>
Meminfo == <<"/", "p", "r", "o", "c", "/", "m", "e", "m", "i", "n", "f", "o">>
Loadavg == <<"/", "p", "r", "o", "c", "/", "l", "o", "a", "d", "a", "v", "g">>
PROCESS_STATS == <<[filename |-> None, func |-> "report_self_stat"]>>
SYSTEM_STATS ==
    <<[filename |-> Meminfo, func |-> "parse_meminfo"],
      [filename |-> Loadavg, func |-> "parse_loadavg"],
      [filename |-> None, func |-> "report_system_stat"]>> \o PROCESS_STATS

\* str() of a number: of an int its digits, of a float its decimal expansion
\* with at least one digit after the point
DigitChar(v) == CHOOSE c \in Digits : DigitVal(c) = v
RECURSIVE IntStr(_)
IntStr(n) ==
    IF n < 0 THEN <<"-">> \o IntStr(-n)
    ELSE IF n < 10 THEN <<DigitChar(n)>>
    ELSE IntStr(n \div 10) \o <<DigitChar(n % 10)>>
RECURSIVE FractionStr(_, _)
FractionStr(n, d) ==
    IF n = 0 THEN <<>>
    ELSE <<DigitChar((10 * n) \div d)>> \o FractionStr((10 * n) % d, d)
Str(value) ==
    IF value.int THEN IntStr(value.val[1])
    ELSE LET n == Abs(value.val[1])
             d == value.val[2]
         IN  (IF value.val[1] < 0 THEN <<"-">> ELSE <<>>)
                 \o IntStr(n \div d) \o <<".">>
                 \o (IF n % d = 0 THEN <<"0">> ELSE FractionStr(n % d, d))

\* meter.increment(name, value): the client sends a counter message
increment(name, value) == name \o <<":">> \o Str(value) \o <<"|", "c">>

send_metrics(metrics) ==
    [i \in DOMAIN metrics |-> increment(metrics[i][1], metrics[i][2])]

\* load_file: what became of the file, and what was read from it
Unopenable == [opened |-> FALSE, read |-> FALSE, data |-> <<>>]
Unreadable == [opened |-> TRUE, read |-> FALSE, data |-> <<>>]
Content(data) == [opened |-> TRUE, read |-> TRUE, data |-> data]

SourceName(source) ==
    IF source.filename # None THEN Join(source.filename) ELSE source.func

\* the callback chain of one source: func, then send_metrics, then the
\* errback that logs
Parsed(source, system) ==
    CASE source.func = "parse_meminfo" ->
             parse_meminfo(system.files[Join(source.filename)].data)
      [] source.func = "parse_loadavg" ->
             parse_loadavg(system.files[Join(source.filename)].data)
      [] source.func = "report_system_stat" ->
             report_system_stat(system.cpu_times)
      [] source.func = "report_self_stat" ->
             report_self_stat(system.process)

NoReport == [called |-> FALSE, raised |-> FALSE, loaded |-> <<>>,
             sent |-> <<>>, logged |-> <<>>, deferreds |-> 0]

\* a call of report_stats, before its loop
Started(stats, system) ==
    [called |-> TRUE, raised |-> FALSE, loaded |-> <<>>, sent |-> <<>>,
     logged |-> <<>>, deferreds |-> 0, stats |-> stats, system |-> system]

\* for filename, func in stats
RECURSIVE StatsLoop(_, _, _)
StatsLoop(stats, system, done) ==
    IF stats = <<>> THEN done
    ELSE LET source == Head(stats)
             name == SourceName(source)
             file == system.files[name]
         IN  IF source.filename # None /\ ~file.opened
             THEN [done EXCEPT !.raised = TRUE]
             ELSE IF source.filename # None /\ ~file.read
             THEN StatsLoop(Tail(stats), system,
                      [done EXCEPT !.loaded = Append(@, name),
                                   !.logged = Append(@, name),
                                   !.deferreds = @ + 1])
             ELSE StatsLoop(Tail(stats), system,
                      [done EXCEPT !.loaded = Append(@, name),
                                   !.sent = IF Parsed(source, system).ok
                                            THEN @ \o send_metrics(
                                                Parsed(source, system).val)
                                            ELSE @,
                                   !.logged = IF Parsed(source, system).ok
                                              THEN @ ELSE Append(@, name),
                                   !.deferreds = @ + 1])

(***************************************************************************)
(* service.py: OptionsGlue, as test_service.py uses it.  A parameter is   *)
(* declared with its name, default and type; the values of the command    *)
(* line and of the config file are texts.                                  *)
(***************************************************************************)
optParameters ==
    <<[long |-> "test", name |-> <<"t", "e", "s", "t">>, default |-> <<"d", "e", "f", "a", "u", "l", "t">>, type |-> "str"],
      [long |-> "number", name |-> <<"n", "u", "m", "b", "e", "r">>, default |-> 5, type |-> "int"],
      [long |-> "config", name |-> <<"c", "o", "n", "f", "i", "g">>, default |-> <<>>, type |-> "str"]>>
Declared == {optParameters[i].long : i \in DOMAIN optParameters} \ {"config"}
Parameter(item) ==
    optParameters[CHOOSE i \in DOMAIN optParameters : optParameters[i].long = item]

\* a config file: its [statsd] section; NoFile when --config names none
NoFile == [exists |-> FALSE, statsd |-> <<>>]
ConfigFile(statsd) == [exists |-> TRUE, statsd |-> statsd]

\* the option's type applied to a text
coerce(type, text) == IF type = "int" THEN ParseInt(text).val ELSE text

OptionsGlue(file) == [parsed |-> FALSE, file |-> file, argv |-> <<>>, opts |-> <<>>]

\* usage.Options.parseOptions: each "--name value" pair of the command
\* line sets opts[name], a later pair replacing an earlier one
RECURSIVE ParsedPairs(_, _)
ParsedPairs(argv, opts) ==
    IF Len(argv) < 2 THEN opts
    ELSE ParsedPairs(SubSeq(argv, 3, Len(argv)),
                     Put(opts, Join(From(argv[1], 3)), argv[2]))

\* o[item]
ConfigOverCommandLine(o, item) ==
    IF "config" \in DOMAIN o.opts /\ o.file.exists /\ item \in DOMAIN o.file.statsd
    THEN coerce(Parameter(item).type, o.file.statsd[item])
    ELSE IF item \in DOMAIN o.opts THEN coerce(Parameter(item).type, o.opts[item])
    ELSE Parameter(item).default
GetItem(o, item) ==
    IF item \in DOMAIN o.opts THEN coerce(Parameter(item).type, o.opts[item])
    ELSE IF "config" \in DOMAIN o.opts /\ o.file.exists
            /\ item \in DOMAIN o.file.statsd
    THEN coerce(Parameter(item).type, o.file.statsd[item])
    ELSE Parameter(item).default

(***************************************************************************)
(* flush() is a generator: its body runs from one yield to the next each   *)
(* time its consumer asks for a sample.  The counters are followed key by  *)
(* key; what comes after the counter loop runs as one step.                *)
(***************************************************************************)
NoGenerator == [running |-> FALSE, error |-> NoError, runs |-> 0]

\* the dictionary iterator remembers the size of the dictionary and
\* raises when it finds another
SameSize(cm, used) == Cardinality(DOMAIN cm) = used

\* one batch of flush_counter_metrics
CounterBatch(key, count, interval, timestamp) ==
    LET value == RDiv(count, RInt(interval))
    IN  Batch(IF ~legacy_namespace
              THEN <<Sample(count_prefix \o key \o ".rate", value, timestamp),
                     Sample(count_prefix \o key \o ".count", count, timestamp)>>
              ELSE <<Sample(stats_prefix \o key, value, timestamp),
                     Sample(count_prefix \o key, count, timestamp)>>)

Unreported(k) == IF k \in DOMAIN owed THEN owed[k] ELSE Zero
InCounter(k) == IF k \in DOMAIN counter_metrics THEN counter_metrics[k] ELSE Zero

\* the consumer asks for the first sample: the body starts and runs to
\* the yield of the first counter key
flush_begin(interval_ms, percent, order, now) ==
    /\ ~gen.running
    /\ counter_metrics # EmptyDict
    /\ \E keys \in {Iter(counter_metrics, order)} :
       \E batch \in {CounterBatch(Head(keys), counter_metrics[Head(keys)],
                                  interval_ms \div 1000, Trunc(Seconds(now)))} :
           /\ counter_metrics' = Reset(counter_metrics, Head(keys))
           /\ gen' = [running |-> TRUE, error |-> NoError,
                      runs |-> gen.runs + 1,
                      interval |-> interval_ms \div 1000, percent |-> percent,
                      order |-> order, now |-> now,
                      timestamp |-> Trunc(Seconds(now)),
                      keys |-> Tail(keys),
                      used |-> Cardinality(DOMAIN counter_metrics),
                      out |-> <<batch>>]
           /\ owed' = Put(owed, Head(keys),
                          RAdd(Unreported(Head(keys)),
                               RMul(RInt(-1), counter_metrics[Head(keys)])))
           /\ output' = batch
    /\ UNCHANGED <<config, timer_metrics, gauge_metrics, meter_metrics,
                   plugin_metrics, self_metrics, lastop, raised, failed,
                   flush_args, history, reporter, collector, service>>

\* for key, count in self.counter_metrics.iteritems(): up to the yield
flush_next ==
    /\ gen.running
    /\ IF ~SameSize(counter_metrics, gen.used)
       THEN /\ gen' = [running |-> FALSE, error |-> "RuntimeError",
                       runs |-> gen.runs]
            /\ raised' = "RuntimeError"
            /\ lastop' = "flush"
            /\ UNCHANGED <<counter_metrics, owed, output>>
       ELSE /\ gen.keys # <<>>
            /\ \E key \in {Head(gen.keys)} :
               \E batch \in {CounterBatch(key, counter_metrics[key],
                                          gen.interval, gen.timestamp)} :
                   /\ counter_metrics' = Reset(counter_metrics, key)
                   /\ gen' = [gen EXCEPT !.keys = Tail(@),
                                         !.out = Append(@, batch)]
                   /\ owed' = Put(owed, key,
                                  RAdd(Unreported(key),
                                       RMul(RInt(-1), counter_metrics[key])))
                   /\ output' = output \o batch
            /\ UNCHANGED <<raised, lastop>>
    /\ UNCHANGED <<config, timer_metrics, gauge_metrics, meter_metrics,
                   plugin_metrics, self_metrics, failed, flush_args, history,
                   reporter, collector, service>>

\* the counter loop ends, and the body runs on to the end of flush()
flush_rest ==
    /\ gen.running
    /\ SameSize(counter_metrics, gen.used)
    /\ gen.keys = <<>>
    /\ \E timestamp \in {gen.timestamp} : \E order \in {gen.order} :
       \E t \in {flush_timer_metrics(timer_metrics, Iter(timer_metrics, order),
                                     gen.percent, timestamp)} :
       \E g \in {IF t.exc = NoError
                 THEN flush_gauge_metrics(gauge_metrics,
                                          Iter(gauge_metrics, order), timestamp)
                 ELSE Skipped(gauge_metrics, t.exc)} :
       \E m \in {IF t.exc = NoError
                 THEN flush_meter_metrics(meter_metrics,
                                          Iter(meter_metrics, order), timestamp,
                                          gen.now)
                 ELSE Skipped(meter_metrics, t.exc)} :
       \E p \in {IF t.exc = NoError
                 THEN flush_plugin_metrics(plugin_metrics,
                                           Iter(plugin_metrics, order),
                                           gen.interval, timestamp)
                 ELSE Skipped(plugin_metrics, t.exc)} :
       \E duration \in {Seconds(gen.now - gen.now)} :
       \E per_metric \in {<<<<Len(gen.out), duration>>, <<Len(t.out), duration>>,
                            <<Len(g.out), duration>>, <<Len(m.out), duration>>,
                            <<Len(p.out), duration>>>>} :
       \E num_stats \in {Len(gen.out) + Len(t.out) + Len(g.out) + Len(m.out)
                             + Len(p.out)} :
       \E s \in {IF t.exc = NoError
                 THEN flush_metrics_summary(num_stats, per_metric, timestamp)
                 ELSE <<>>} :
           /\ counter_metrics' = Cleared(counter_metrics)
           /\ timer_metrics' = t.map
           /\ gauge_metrics' = g.map
           /\ meter_metrics' = m.map
           /\ plugin_metrics' = p.map
           /\ IF t.exc = NoError
              THEN /\ process_timings' = EmptyDict
                   /\ by_type' = EmptyDict
                   /\ last_flush_duration' =
                          RSum([i \in DOMAIN per_metric |-> per_metric[i][2]])
                   /\ last_process_duration' =
                          RSum([i \in DOMAIN Iter(process_timings, Types) |->
                                   process_timings[
                                       Iter(process_timings, Types)[i]]])
              ELSE UNCHANGED self_metrics
           /\ lastop' = "flush"
           /\ raised' = t.exc
           /\ failed' = FALSE
           /\ output' = Yielded(gen.out, t.out, g.out, m.out, p.out, s)
           /\ flush_args' = <<gen.interval * 1000, gen.percent>>
           /\ gen' = [running |-> FALSE, error |-> t.exc, runs |-> gen.runs]
    /\ pending' = 0
    /\ contrib' = EmptyDict
    /\ traffic' = "none"
    /\ ingested' = EmptyDict
    /\ flushed' = TRUE
    /\ before' = NoFlush
    /\ lastkey' = NoKey
    /\ UNCHANGED <<config, last_gauge, reporter, collector, service, owed>>

(***************************************************************************)
(* The messages sent to the processor.                                     *)
(***************************************************************************)
MsgB3 == <<"b", ":", "3", "|", "c", "|", "@", "0", ".", "5">>
MsgTimerA2 == <<"a", ":", "2", "|", "m", "s">>
MsgGaugeA4 == <<"a", ":", "4", "|", "g">>
MsgMeterB == <<"b", ":", "1", "|", "m">>
MsgPluginA == <<"a", ":", "1", "|", "p">>

CounterMessages ==
    { MsgA1, MsgB3,
      <<"a", ":", "|", "c">>,
      <<"a", ":", "1", "|", "c", "|", "x">>,
      <<"b", ":", "1", "|", "c", "|", "@", "0">>,
      <<"a", ":", "1", "|", "c", "|", "@", ".">> }

TimerMessages ==
    { MsgTimerA2,
      <<"a", ":", "1", "|", "m", "s">>,
      <<"b", "/", "c", ":", "3", ".", "5", "|", "m", "s">>,
      <<"a", ":", "x", "|", "m", "s">> }

GaugeMessages ==
    { MsgGaugeA4,
      <<" ", "a", "!", ":", "7", "|", "g">>,
      <<"b", ":", "-", "1", "|", "g">>,
      <<"a", ":", "x", "|", "g">>,
      <<"a", ":", "1", ":", "2", "|", "g">> }

MeterMessages ==
    { MsgMeterB,
      <<"b", ":", "-", "1", "|", "m">>,
      <<"a", ":", "x", "|", "m">> }

\* one message of each type
Sampler == {MsgA1, MsgTimerA2, MsgGaugeA4, MsgMeterB, MsgPluginA}

\* the examples of the wire grammar: "foo:1|c" is taken, the rest is not
Foo == <<"f", "o", "o">>
MsgFoo == Foo \o <<":", "1", "|", "c">>
Malformed ==
    { Foo \o <<"1", "|", "c">>,
      Foo \o <<":", "|", "c">>,
      Foo \o <<":", "1">>,
      Foo \o <<":", "1", "|", "c", "|", "e", "x", "t", "r", "a", "|", "m", "o", "r", "e">>,
      <<"a", ":", "x", "|", "m", "s">>,
      <<"a", ":", "x", "|", "g">>,
      <<"a", ":", "1", ":", "2", "|", "g">>,
      <<"a", ":", "x", "|", "m">>,
      <<"a", ":", "1", "|", "c", "|", "x">>,
      <<"b", ":", "1", "|", "c", "|", "@", "0">>,
      <<"a", ":", "1", "|", "c", "|", "@", ".">>,
      <<"a", ":", "1", "|", "x">> }

Messages == {MsgFoo} \cup Malformed

\* keys of up to MaxKeyLen characters
MaxKeyLen == 2
KeysAtOnce == 1
KeyChars == {"a", " ", "/", "!"}
RawKeys == UNION {[1..n -> KeyChars] : n \in 1..MaxKeyLen}
KeyMessages == {raw \o <<":", "1", "|", "c">> : raw \in RawKeys}
KeyClock == {2000}

\* the scenario of the orders timer
Orders == <<"o", "r", "d", "e", "r", "s">>
OrdersMessages ==
    { Orders \o <<":", "2", "5", "0", "|", "m", "s">>,
      Orders \o <<":", "7", "5", "0", "|", "m", "s">> }
OrdersSent == 8
OrdersClock == {2000, 2001}

\* the orders a dictionary of the processor may be iterated in
KeysInUse ==
    DOMAIN counter_metrics \cup DOMAIN timer_metrics \cup DOMAIN gauge_metrics
        \cup DOMAIN meter_metrics \cup DOMAIN plugin_metrics
KeyOrders ==
    {o \in [1..Cardinality(KeysInUse) -> KeysInUse] :
        \A i, j \in DOMAIN o : o[i] = o[j] => i = j}

DefaultInterval == 10000
DefaultPercent == 90

\* arguments of flush(): whole seconds, and thresholds that keep a sample
FlushArgs == {<<DefaultInterval, DefaultPercent>>, <<2000, 50>>}
\* other intervals I > 0 and thresholds P in 0..100
AnyFlushArgs == FlushArgs \cup {<<1500, DefaultPercent>>, <<500, 50>>,
                                <<DefaultInterval, 0>>, <<2000, 10>>}

Init ==
    /\ legacy_namespace \in BOOLEAN
    /\ delete_idle_counters \in BOOLEAN
    /\ lightweight_mode \in BOOLEAN
    /\ counter_metrics = EmptyDict
    /\ timer_metrics = EmptyDict
    /\ gauge_metrics = EmptyDict
    /\ meter_metrics = EmptyDict
    /\ plugin_metrics = EmptyDict
    /\ process_timings = EmptyDict
    /\ by_type = EmptyDict
    /\ last_flush_duration = Zero
    /\ last_process_duration = Zero
    /\ lastop = "init"
    /\ raised = NoError
    /\ failed = FALSE
    /\ output = <<>>
    /\ flush_args = <<>>
    /\ pending = 0
    /\ contrib = EmptyDict
    /\ last_gauge = EmptyDict
    /\ traffic = "none"
    /\ flushed = FALSE
    /\ before = NoFlush
    /\ lastkey = NoKey
    /\ ingested = EmptyDict
    /\ histogram = HistogramMetricReporter
    /\ calls = MeterMetricReporter(ReporterStart)
    /\ cleared = FALSE
    /\ called = NoCall
    /\ wire = <<>>
    /\ collected = NoReport
    /\ rounds = 0
    /\ options = OptionsGlue(NoFile)
    /\ gen = NoGenerator
    /\ owed = EmptyDict

\* at most limit messages arrive between two flushes
Ingest(messages, clock, limit) ==
    \E message \in messages, now \in clock :
        /\ pending < limit
        /\ process(message, now)
        /\ lastkey' = NoKey
        /\ UNCHANGED <<collector, service, lazy>>

\* the same, keeping the key of the message as it was sent and as
\* normalize_key returned it
IngestKeyed(messages, clock, limit) ==
    \E message \in messages, now \in clock :
        /\ pending < limit
        /\ process(message, now)
        /\ lastkey' = IF Routed(message).ok
                      THEN <<Routed(message).raw,
                             normalize_key(Routed(message).raw)>>
                      ELSE NoKey
        /\ UNCHANGED <<collector, service, lazy>>

\* the same, keeping also the type field of the message
IngestTyped(messages, clock, limit) ==
    \E message \in messages, now \in clock :
        /\ pending < limit
        /\ process(message, now)
        /\ lastkey' = IF Routed(message).ok
                      THEN <<Routed(message).raw,
                             normalize_key(Routed(message).raw),
                             Routed(message).fields[2]>>
                      ELSE NoKey
        /\ UNCHANGED <<collector, service, lazy>>

Flush(args, clock) ==
    \E a \in args, order \in KeyOrders, now \in clock :
        flush(a[1], a[2], order, now) /\ UNCHANGED lazy

\* process(message), keeping account of what the counters are owed
Account(messages, clock, limit) ==
    \E message \in messages, now \in clock :
    \E r \in {Routed(message)} : \E o \in {Outcome(message, now)} :
        /\ pending < limit
        /\ process(message, now)
        /\ lastkey' = NoKey
        /\ owed' = IF r.ok /\ r.metric_type = "c" /\ Accepted(o)
                   THEN Put(owed, r.key,
                            RAdd(Unreported(r.key), Contribution(r.fields)))
                   ELSE owed
        /\ UNCHANGED <<gen, collector, service>>

\* the count samples of the batches yielded for keys: what each key is owed
\* once they are out
RECURSIVE Paid(_, _, _)
Paid(due, keys, batches) ==
    IF batches = <<>> THEN due
    ELSE Paid(Put(due, Head(keys),
                  RAdd(IF Head(keys) \in DOMAIN due THEN due[Head(keys)]
                       ELSE Zero,
                       RMul(RInt(-1), Head(batches)[Len(Head(batches))][2]))),
              Tail(keys), Tail(batches))

\* flush(), consumed to its end in one piece, keeping the same account
Settle(args, clock) ==
    \E a \in args, order \in KeyOrders, now \in clock :
        /\ flush(a[1], a[2], order, now)
        /\ owed' = Paid(owed, Iter(counter_metrics, order),
                        flush_counter_metrics(counter_metrics,
                                              Iter(counter_metrics, order),
                                              a[1] \div 1000,
                                              Trunc(Seconds(now))).out)
        /\ UNCHANGED gen

\* get_file_parser: a config file is written and an options object made
get_file_parser(statsd) ==
    /\ ~options.parsed
    /\ ~options.file.exists
    /\ options' = OptionsGlue(ConfigFile(statsd))
    /\ UNCHANGED <<processor, reporter, collector, lazy>>

parseOptions(argv) ==
    /\ ~options.parsed
    /\ options' = [options EXCEPT !.parsed = TRUE, !.argv = argv,
                                  !.opts = ParsedPairs(argv, <<>>)]
    /\ UNCHANGED <<processor, reporter, collector, lazy>>

\* report_stats(stats, meter) on a host in the given condition; what it
\* sends goes on the wire
report_stats(stats, system) ==
    /\ collected' = StatsLoop(stats, system, Started(stats, system))
    /\ wire' = wire \o collected'.sent
    /\ rounds' = rounds + 1
    /\ UNCHANGED <<processor, reporter, service, lazy>>

\* a message of the collector reaches process()
Deliver(clock) ==
    \E now \in clock :
        /\ wire # <<>>
        /\ process(Head(wire), now)
        /\ lastkey' = NoKey
        /\ wire' = Tail(wire)
        /\ UNCHANGED <<collected, rounds, service, lazy>>

\* messages of every type
Next == Ingest(Sampler, Clock, MaxPending) \/ Flush(FlushArgs, Clock)
Spec == Init /\ [][Next]_vars

\* counters
NextCounters ==
    Ingest(CounterMessages, Clock, MaxPending) \/ Flush(FlushArgs, Clock)
SpecCounters == Init /\ [][NextCounters]_vars

\* counters, any flush interval
NextIntervals ==
    Ingest(CounterMessages, Clock, MaxPending) \/ Flush(AnyFlushArgs, Clock)
SpecIntervals == Init /\ [][NextIntervals]_vars

\* timers, any percent threshold
NextTimers ==
    Ingest(TimerMessages, Clock, MaxPending) \/ Flush(AnyFlushArgs, Clock)
SpecTimers == Init /\ [][NextTimers]_vars

\* timers, flushed with the default and one other safe threshold
NextSamples ==
    Ingest(TimerMessages, Clock, MaxPending) \/ Flush(FlushArgs, Clock)
SpecSamples == Init /\ [][NextSamples]_vars

\* gauges
NextGauges ==
    Ingest(GaugeMessages, Clock, MaxPending) \/ Flush(FlushArgs, Clock)
SpecGauges == Init /\ [][NextGauges]_vars

\* meters
NextMeters ==
    Ingest(MeterMessages, Clock, MaxPending) \/ Flush(FlushArgs, Clock)
SpecMeters == Init /\ [][NextMeters]_vars

\* well-formed and malformed messages
NextIngest ==
    Ingest(Messages, Clock, MaxPending)
        \/ Flush({<<DefaultInterval, DefaultPercent>>}, Clock)
SpecIngest == Init /\ [][NextIngest]_vars

\* keys of every shape, one counter message at a time
InitKeys == Init /\ delete_idle_counters /\ ~lightweight_mode
NextKeys ==
    IngestKeyed(KeyMessages, KeyClock, KeysAtOnce)
        \/ Flush({<<DefaultInterval, DefaultPercent>>}, KeyClock)
SpecKeys == InitKeys /\ [][NextKeys]_vars

\* a timer reporter: a few updates, ticks and clear()
Durations == {-1, 0, 3}
MaxCalls == 5
Marked == calls.count[1]
InitReporter ==
    Init /\ legacy_namespace /\ ~delete_idle_counters /\ ~lightweight_mode
NextReporter ==
    \/ \E duration \in Durations : Marked < MaxCalls /\ update(duration)
    \/ tick
    \/ clear
SpecReporter == InitReporter /\ [][NextReporter]_vars

\* a timer reporter: a stream of updates that overfills the sample, with
\* clear() at any point of it
MaxStream == 1030
Stream == {3}
NextReservoir ==
    \/ \E duration \in Stream : Marked < MaxStream /\ update(duration)
    \/ clear
SpecReservoir == InitReporter /\ [][NextReservoir]_vars

\* the collector: the hosts it runs on, with at most one source failing
Readings ==
    [available |-> TRUE, cpu_percent |-> Rat(5, 2), utime |-> RInt(1), stime |-> Zero,
     memory_percent |-> Rat(1, 2), vsize |-> 2048, rss |-> 1024]
CpuTimes ==
    [available |-> TRUE, idle |-> RInt(7), iowait |-> Zero, irq |-> Zero, nice |-> Zero,
     system |-> RInt(1), user |-> Rat(3, 2)]
MeminfoData == <<"M", "e", "m", "T", "o", "t", "a", "l", ":", " ", "2", " ", "k", "B", "\n", "M", "e", "m", "F", "r", "e", "e", ":", " ", "1", " ", "k", "B", "\n", "V", "m", "a", "l", "l", "o", "c", "U", "s", "e", "d", ":", " ", "0", " ", "k", "B", "\n">>
MeminfoUnit == <<"M", "e", "m", "T", "o", "t", "a", "l", ":", " ", "2", " ", "k", "B", "\n", "M", "e", "m", "F", "r", "e", "e", ":", " ", "1", " ", "g", "B", "\n">>
LoadavgData == <<"1", " ", "0", ".", "5", " ", "2", " ", "1", "/", "9", " ", "3", "\n">>
LoadavgWord == <<"1", " ", "x", " ", "2", " ", "1", "/", "9", " ", "3", "\n">>
Host(meminfo, loadavg, cpu_times, readings) ==
    [files |-> [name \in {Join(Meminfo), Join(Loadavg)} |->
                   IF name = Join(Meminfo) THEN meminfo ELSE loadavg],
     cpu_times |-> cpu_times, process |-> readings]
Healthy == Host(Content(MeminfoData), Content(LoadavgData), CpuTimes, Readings)
Hosts ==
    {Healthy}
        \cup {Host(meminfo, Content(LoadavgData), CpuTimes, Readings) :
                 meminfo \in {Unopenable, Unreadable, Content(MeminfoUnit)}}
        \cup {Host(Content(MeminfoData), loadavg, CpuTimes, Readings) :
                 loadavg \in {Unopenable, Unreadable, Content(LoadavgWord)}}
        \cup {Host(Content(MeminfoData), Content(LoadavgData), Unavailable,
                   Readings),
              Host(Content(MeminfoData), Content(LoadavgData), CpuTimes,
                   Unavailable)}
MaxRounds == 2
NextCollector ==
    \/ \E system \in Hosts :
           rounds < MaxRounds /\ wire = <<>> /\ report_stats(SYSTEM_STATS, system)
    \/ Deliver(KeyClock)
SpecCollector == InitReporter /\ [][NextCollector]_vars

\* the options object: config files and command lines
TestValues == {<<"c", "o", "n", "f", "i", "g", "v", "a", "l", "u", "e">>, <<"c", "m", "d", "l", "i", "n", "e">>}
NumberValues == {<<"1", "0">>, <<"5">>}
Sections ==
    {<<>>}
        \cup {[item \in {"test"} |-> v] : v \in TestValues}
        \cup {[item \in {"number"} |-> n] : n \in NumberValues}
        \cup {[item \in {"test", "number"} |-> IF item = "test" THEN v ELSE n] :
                 v \in TestValues, n \in NumberValues}
CommandLines ==
    {c \o t \o n :
        c \in {<<>>, <<<<"-", "-", "c", "o", "n", "f", "i", "g">>, <<"f">>>>},
        t \in {<<>>, <<<<"-", "-", "t", "e", "s", "t">>, <<"c", "m", "d", "l", "i", "n", "e">>>>, <<<<"-", "-", "t", "e", "s", "t">>, <<"n", "o", "t", "d", "e", "f", "a", "u", "l", "t">>>>,
               <<<<"-", "-", "t", "e", "s", "t">>, <<"n", "o", "t", "d", "e", "f", "a", "u", "l", "t">>, <<"-", "-", "t", "e", "s", "t">>, <<"c", "m", "d", "l", "i", "n", "e">>>>},
        n \in {<<>>, <<<<"-", "-", "n", "u", "m", "b", "e", "r">>, <<"7">>>>}}
NextOptions ==
    \/ \E statsd \in Sections : get_file_parser(statsd)
    \/ \E argv \in CommandLines : parseOptions(argv)
SpecOptions == InitReporter /\ [][NextOptions]_vars

\* counter messages that arrive between two steps of a flush
MaxFlushes == 2
NextLazy ==
    \/ Account({MsgA1, MsgB3}, KeyClock, MaxPending)
    \/ \E order \in KeyOrders :
           /\ gen.runs < MaxFlushes
           /\ flush_begin(DefaultInterval, DefaultPercent, order, 2000)
    \/ flush_next
    \/ flush_rest
SpecLazy == Init /\ [][NextLazy]_vars

\* counter messages and whole flushes, one after the other, with the
\* account kept; an interval of whole seconds and one below a second
MaxOwed == 3
Solvent == \A k \in DOMAIN owed : RLess(owed[k], RInt(MaxOwed))
NextLedger ==
    \/ Solvent /\ Account(CounterMessages, KeyClock, MaxPending)
    \/ Settle({<<DefaultInterval, DefaultPercent>>, <<500, 50>>}, KeyClock)
SpecLedger == Init /\ [][NextLedger]_vars

\* the same with intervals of whole seconds
NextSettled ==
    Account(CounterMessages, KeyClock, MaxPending)
        \/ Settle(FlushArgs, KeyClock)
SpecSettled == Init /\ [][NextSettled]_vars

\* the same keys sent with each of the types
TypeMessages ==
    { MsgA1, MsgTimerA2, MsgGaugeA4, MsgMeterB,
      <<"b", ":", "3", ".", "5", "|", "m", "s">>,
      <<"a", ":", "x", "|", "m", "s">> }
NextTypes ==
    IngestTyped(TypeMessages, KeyClock, MaxPending)
        \/ Flush({<<DefaultInterval, DefaultPercent>>}, KeyClock)
SpecTypes == InitReporter /\ [][NextTypes]_vars

\* the orders scenario: legacy namespace, the other options at their defaults
InitOrders ==
    Init /\ legacy_namespace /\ ~delete_idle_counters /\ ~lightweight_mode
NextOrders ==
    Ingest(OrdersMessages, OrdersClock, OrdersSent)
        \/ Flush({<<DefaultInterval, DefaultPercent>>}, OrdersClock)
SpecOrders == InitOrders /\ [][NextOrders]_vars

(***************************************************************************)
(* The samples of the last flush.                                          *)
(***************************************************************************)
Flushing == lastop = "flush"
Completed == Flushing /\ raised = NoError

Named(name) == {i \in DOMAIN output : output[i][1] = name}
ValuesOf(name) == {output[i][2] : i \in Named(name)}

\* the names of the two samples of counter k
RateNameIn(legacy, k) ==
    IF legacy THEN "stats." \o k ELSE "app.counters." \o k \o ".rate"
CountNameIn(legacy, k) ==
    IF legacy THEN "stats_counts." \o k ELSE "app.counters." \o k \o ".count"
RateName(k) == RateNameIn(legacy_namespace, k)
CountName(k) == CountNameIn(legacy_namespace, k)

AllKeys == {"a", "b", "foo", "orders", "b-c"}

(***************************************************************************)
(* C1: after a flush that completed, every counter is 0 when the           *)
(* delete-idle policy is off, and the counter dictionary is empty when it  *)
(* is on.                                                                  *)
(***************************************************************************)
CountersClearedByFlush ==
    Completed =>
        IF delete_idle_counters THEN counter_metrics = EmptyDict
        ELSE \A k \in DOMAIN counter_metrics : counter_metrics[k] = Zero

\* a flush of a counter that was not 0 left it in place at 0
CountersClearedSeen ==
    /\ Completed
    /\ ~delete_idle_counters
    /\ "b" \in DOMAIN counter_metrics
    /\ before.counter_metrics["b"] = RInt(6)

(***************************************************************************)
(* C2: the count sample a flush emits for a counter key is the sum, over   *)
(* the counter messages accepted for that key since the previous flush,    *)
(* of value * (1 / rate); a key that got no message is reported with 0.    *)
(***************************************************************************)
CountIsScaledSum ==
    Completed =>
        \A k \in AllKeys :
            IF k \in DOMAIN before.contrib
            THEN ValuesOf(CountName(k)) = {before.contrib[k]}
                 /\ Cardinality(Named(CountName(k))) = 1
            ELSE ValuesOf(CountName(k)) \subseteq {Zero}

\* "b:3|c|@0.5" counted 6 and "a:1|c" counted 1
CountIsScaledSumSeen ==
    /\ Completed
    /\ ValuesOf(CountName("b")) = {RInt(6)}
    /\ ValuesOf(CountName("a")) = {RInt(1)}

(***************************************************************************)
(* C3: for every flush interval I > 0 in milliseconds, whole seconds or    *)
(* not, below 1000 or not, the rate sample emitted for a counter is its    *)
(* count divided by I / 1000.                                              *)
(***************************************************************************)
RateIsCountPerInterval ==
    (Flushing /\ ~lightweight_mode) =>
        \A k \in DOMAIN before.counter_metrics :
            ValuesOf(RateName(k)) =
                {RDiv(before.counter_metrics[k], Rat(flush_args[1], 1000))}

(***************************************************************************)
(* C4: a gauge holds the value of the last message accepted for its key,   *)
(* whatever number of flushes happened since; a flush emits exactly one    *)
(* sample per gauge key, carrying that value, and changes no gauge.        *)
(***************************************************************************)
GaugeNameIn(legacy, k) ==
    (IF legacy THEN "stats.gauge." ELSE "app.gauges.") \o k \o ".value"
GaugeName(k) == GaugeNameIn(legacy_namespace, k)
GaugeNames == {GaugeName(k) : k \in AllKeys}

GaugesKeepLastValue ==
    /\ gauge_metrics = last_gauge
    /\ Flushing =>
           /\ \A k \in DOMAIN last_gauge :
                  /\ Cardinality(Named(GaugeName(k))) = 1
                  /\ ValuesOf(GaugeName(k)) = {last_gauge[k]}
           /\ Cardinality({i \in DOMAIN output : output[i][1] \in GaugeNames})
                  = Cardinality(DOMAIN last_gauge)

\* a second flush in a row, without a message in between, reports the
\* gauge again
GaugesKeepLastValueSeen ==
    /\ Flushing
    /\ before.follows
    /\ before.pending = 0
    /\ ValuesOf(GaugeName("a")) = {RInt(7)}
    /\ ValuesOf(GaugeName("b")) = {RInt(-1)}

(***************************************************************************)
(* C5: the samples of one flush come in the order counters, timers,        *)
(* gauges, meters, plugins, summary, and all carry the integer part of     *)
(* one reading of the clock.                                               *)
(***************************************************************************)
TimerNameIn(legacy, k, item) ==
    (IF legacy THEN "stats.timers." ELSE "app.timers.") \o k \o item
TimerName(k, item) == TimerNameIn(legacy_namespace, k, item)
TimerItemNames(percent) ==
    {".count", ".lower", ".mean", ".upper", ".upper_" \o ToString(percent)}
SummaryNameIn(legacy, item) ==
    (IF legacy THEN "statsd." ELSE "app.internal.") \o item
SummaryName(item) == SummaryNameIn(legacy_namespace, item)

\* the names of each category, in either namespace
CategoryNames ==
    [legacy \in BOOLEAN |->
        <<{RateNameIn(legacy, k) : k \in AllKeys}
              \cup {CountNameIn(legacy, k) : k \in AllKeys},
          {TimerNameIn(legacy, k, item) :
              k \in AllKeys,
              item \in UNION {TimerItemNames(a[2]) : a \in AnyFlushArgs}},
          {GaugeNameIn(legacy, k) : k \in AllKeys},
          {"stats.meter." \o k \o item :
              k \in AllKeys,
              item \in {".count", ".mean_rate", ".1minute_rate",
                        ".5minute_rate", ".15minute_rate"}},
          {"stats.plug." \o k : k \in AllKeys},
          {SummaryNameIn(legacy, "numStats")}
              \cup {SummaryNameIn(legacy, "flush." \o c \o item) :
                       c \in {"counter", "timer", "gauge", "meter", "plugin"},
                       item \in {".count", ".duration"}}
              \cup {SummaryNameIn(legacy, "receive." \o t \o item) :
                       t \in {"c", "ms", "g", "m", "p"},
                       item \in {".count", ".duration"}}>>]

\* 1 for a counter sample, ... 6 for a summary sample, 0 for any other
Rank(name) ==
    LET names == CategoryNames[legacy_namespace]
    IN  IF \E r \in DOMAIN names : name \in names[r]
        THEN CHOOSE r \in DOMAIN names : name \in names[r]
        ELSE 0
CounterSamples == {i \in DOMAIN output : Rank(output[i][1]) = 1}
Ranks == {Rank(output[i][1]) : i \in DOMAIN output}

SamplesInCategoryOrder ==
    Flushing =>
        /\ 0 \notin Ranks
        /\ \E ranks \in {[i \in DOMAIN output |-> Rank(output[i][1])]} :
               \A i, j \in DOMAIN output : i < j => ranks[i] <= ranks[j]
        /\ \A i \in DOMAIN output :
               /\ 2 * output[i][3] <= before.now
               /\ before.now < 2 * output[i][3] + 2

\* a flush that had samples of all six categories to emit, at a reading
\* of the clock that is not a whole second
SamplesInCategoryOrderSeen ==
    /\ Flushing
    /\ Ranks = {1, 2, 3, 4, 5, 6}
    /\ before.now = 1999

(***************************************************************************)
(* C6: process() of a malformed message returns normally and leaves the    *)
(* five accumulator dictionaries exactly as they were.                     *)
(***************************************************************************)
MalformedIsDropped ==
    [][\A message \in Malformed, now \in Clock :
          process(message, now) =>
              raised' = NoError /\ accumulators' = accumulators]_vars

(***************************************************************************)
(* C7: process() of a malformed message leaves by_type and                 *)
(* process_timings unchanged.                                              *)
(***************************************************************************)
MalformedIsNotCounted ==
    [][\A message \in Malformed, now \in Clock :
          process(message, now) =>
              by_type' = by_type /\ process_timings' = process_timings]_vars

(***************************************************************************)
(* C8: for every timer key with n >= 1 durations and every threshold P,    *)
(* with s the durations sorted and idx = n - round((100 - P) / 100 * n),   *)
(* the flush completes without error, emits lower = s[0], upper = s[n-1],  *)
(* upper_P = s[idx-1] and mean = sum(s[0:idx]) / idx, and empties the      *)
(* key's list.  Where idx is 0 the formula names no sample, and only the   *)
(* completion of the flush is asked for.                                   *)
(***************************************************************************)
TimerStatsAsSpecified ==
    Flushing =>
        /\ raised = NoError
        /\ \A k \in DOMAIN before.timer_metrics :
               LET s == Sorted(before.timer_metrics[k])
                   n == Len(s)
                   P == flush_args[2]
                   idx == n - RoundInt(Rat((100 - P) * n, 100))
               IN  (n >= 1 /\ idx >= 1) =>
                       /\ ValuesOf(TimerName(k, ".lower")) = {s[1]}
                       /\ ValuesOf(TimerName(k, ".upper")) = {s[n]}
                       /\ ValuesOf(TimerName(k, ".upper_" \o ToString(P)))
                              = {s[idx]}
                       /\ ValuesOf(TimerName(k, ".mean"))
                              = {RDiv(RSum(SubSeq(s, 1, idx)), RInt(idx))}
                       /\ timer_metrics[k] = <<>>

(***************************************************************************)
(* C9: after "orders:250|ms" four times and "orders:750|ms" four times, a  *)
(* flush at ts = 1000 with P = 90 in the legacy namespace emits lower 250, *)
(* upper 750, upper_90 750, count 8 and the mean of the seven durations    *)
(* kept, 3250 / 7, all with timestamp 1000.                                *)
(***************************************************************************)
Emitted(name, value, timestamp) ==
    \E i \in DOMAIN output : output[i] = <<name, value, timestamp>>

OrdersFlushed ==
    /\ Flushing
    /\ legacy_namespace
    /\ ~lightweight_mode
    /\ flush_args[2] = 90
    /\ before.now \div 2 = 1000
    /\ DOMAIN before.timer_metrics = {"orders"}
    /\ Sorted(before.timer_metrics["orders"])
           = <<RInt(250), RInt(250), RInt(250), RInt(250),
               RInt(750), RInt(750), RInt(750), RInt(750)>>

OrdersEmitted(mean) ==
    /\ Emitted("stats.timers.orders.lower", RInt(250), 1000)
    /\ Emitted("stats.timers.orders.upper", RInt(750), 1000)
    /\ Emitted("stats.timers.orders.upper_90", RInt(750), 1000)
    /\ Emitted("stats.timers.orders.mean", mean, 1000)
    /\ Emitted("stats.timers.orders.count", RInt(8), 1000)
    /\ \A i \in DOMAIN output : output[i][3] = 1000

OrdersMeanOfSeven == OrdersFlushed => OrdersEmitted(Rat(3250, 7))

OrdersMeanOfSevenSeen == OrdersFlushed /\ OrdersEmitted(Rat(3250, 7))

\* the claim as written: mean 437.5
OrdersMean4375 == OrdersFlushed => OrdersEmitted(Rat(4375, 10))

Occurrences(name) == Cardinality(Named(name))

LightweightChangesOnlySamples ==
    Flushing =>
        /\ \A k \in DOMAIN before.counter_metrics :
               /\ Occurrences(CountName(k)) = 1
               /\ IF lightweight_mode THEN Named(RateName(k)) = {}
                  ELSE /\ Occurrences(RateName(k)) = 1
                       /\ \A i \in Named(RateName(k)) :
                              i + 1 \in Named(CountName(k))
        /\ \A k \in DOMAIN before.timer_metrics :
               before.timer_metrics[k] # <<>> =>
                   /\ \A item \in {".lower", ".mean", ".upper",
                                   ".upper_" \o ToString(flush_args[2])} :
                          Occurrences(TimerName(k, item)) = 1
                   /\ Occurrences(TimerName(k, ".count"))
                          = IF lightweight_mode THEN 0 ELSE 1
        /\ counter_metrics =
               IF delete_idle_counters THEN EmptyDict
               ELSE [k \in DOMAIN before.counter_metrics |-> Zero]
        /\ timer_metrics = [k \in DOMAIN before.timer_metrics |-> <<>>]
        /\ gauge_metrics = before.gauge_metrics
        /\ meter_metrics = before.meter_metrics
        /\ DOMAIN plugin_metrics = DOMAIN before.plugin_metrics

\* a lightweight flush of a counter and a timer
LightweightChangesOnlySamplesSeen ==
    /\ Flushing
    /\ lightweight_mode
    /\ "a" \in DOMAIN before.counter_metrics
    /\ "a" \in DOMAIN before.timer_metrics
    /\ before.timer_metrics["a"] # <<>>
    /\ Named(RateName("a")) = {}
    /\ Named(TimerName("a", ".count")) = {}
    /\ Occurrences(TimerName("a", ".mean")) = 1

(***************************************************************************)
(* C12: no step removes a meter or lowers its count, whatever values the   *)
(* accepted meter messages carry.                                          *)
(***************************************************************************)
MeterCountNeverDecreases ==
    [][\A k \in DOMAIN meter_metrics :
           /\ k \in DOMAIN meter_metrics'
           /\ ~RLess(meter_metrics'[k].count, meter_metrics[k].count)]_vars

(***************************************************************************)
(* C13: a key enters an accumulator dictionary only in a step that         *)
(* accepts a message, and no step removes a key from the timers, the       *)
(* gauges, the meters or, with the delete-idle policy off, the counters.   *)
(***************************************************************************)
AcceptingStep == lastop' = "process" /\ raised' = NoError /\ ~failed'

EntriesLazyAndKept ==
    [][/\ (\/ DOMAIN counter_metrics' # DOMAIN counter_metrics
           \/ DOMAIN timer_metrics' # DOMAIN timer_metrics
           \/ DOMAIN gauge_metrics' # DOMAIN gauge_metrics
           \/ DOMAIN meter_metrics' # DOMAIN meter_metrics)
              => (AcceptingStep \/ (lastop' = "flush" /\ delete_idle_counters))
       /\ DOMAIN timer_metrics \subseteq DOMAIN timer_metrics'
       /\ DOMAIN gauge_metrics \subseteq DOMAIN gauge_metrics'
       /\ DOMAIN meter_metrics \subseteq DOMAIN meter_metrics'
       /\ ~delete_idle_counters
              => DOMAIN counter_metrics \subseteq DOMAIN counter_metrics']_vars

(***************************************************************************)
(* C14: normalize_key turns each run of whitespace into "_", each run of   *)
(* "/" into "-" and drops every character outside [A-Za-z0-9._-], so       *)
(* "a b/c!d" becomes "a_b-cd"; normalising twice is normalising once; and  *)
(* the keys of the dictionaries are normal forms of the keys sent.         *)
(***************************************************************************)
KeyAlphabet == Letters \cup Digits \cup {".", "_", "-"}

\* what each character of raw becomes
Normal(raw) ==
    Flatten([i \in DOMAIN raw |->
                IF raw[i] \in Whitespace
                THEN IF i > 1 /\ raw[i - 1] \in Whitespace THEN <<>> ELSE <<"_">>
                ELSE IF raw[i] = "/"
                THEN IF i > 1 /\ raw[i - 1] = "/" THEN <<>> ELSE <<"-">>
                ELSE IF raw[i] \in KeyAlphabet THEN <<raw[i]>>
                ELSE <<>>])

\* the normal forms of the keys sent
NormalKeys == {Join(Normal(raw)) : raw \in RawKeys}

KeysAreNormalized ==
    /\ normalize_key(<<"a", " ", "b", "/", "c", "!", "d">>)
           = <<"a", "_", "b", "-", "c", "d">>
    /\ lastkey # NoKey =>
           /\ lastkey[2] = Normal(lastkey[1])
           /\ normalize_key(lastkey[2]) = lastkey[2]
           /\ \A i \in DOMAIN lastkey[2] : lastkey[2][i] \in KeyAlphabet
           /\ Join(lastkey[2]) \in KeysInUse
    /\ KeysInUse \subseteq NormalKeys

\* the key "/ " was stored as "-_"
KeysAreNormalizedSeen ==
    /\ lastkey # NoKey
    /\ lastkey[1] = <<"/", " ">>
    /\ DOMAIN counter_metrics = {"-_"}

(***************************************************************************)
(* C15: in the legacy namespace the samples are named stats.<key>,         *)
(* stats_counts.<key>, stats.timers.<key>..., stats.gauge.<key>.value and  *)
(* statsd...., whatever prefixes were configured; otherwise they are named *)
(* <message_prefix>.counters.<key>.rate and .count,                        *)
(* <message_prefix>.timers.<key>..., <message_prefix>.gauges.<key>.value   *)
(* and <internal_metrics_prefix>....  The processor is configured with     *)
(* message_prefix "app" and internal_metrics_prefix "app.internal.".       *)
(***************************************************************************)
Names == {output[i][1] : i \in DOMAIN output}

\* the names of the counters, timers, gauges and summary of a namespace
RegimeNames(legacy) ==
    CategoryNames[legacy][1] \cup CategoryNames[legacy][2]
        \cup CategoryNames[legacy][3] \cup CategoryNames[legacy][6]

NamespaceRegimes ==
    Flushing =>
        /\ \A k \in DOMAIN before.counter_metrics :
               /\ (IF legacy_namespace THEN "stats_counts." \o k
                   ELSE "app.counters." \o k \o ".count") \in Names
               /\ ~lightweight_mode =>
                      (IF legacy_namespace THEN "stats." \o k
                       ELSE "app.counters." \o k \o ".rate") \in Names
        /\ \A k \in DOMAIN before.timer_metrics :
               before.timer_metrics[k] # <<>> =>
                   (IF legacy_namespace THEN "stats.timers." \o k \o ".mean"
                    ELSE "app.timers." \o k \o ".mean") \in Names
        /\ \A k \in DOMAIN before.gauge_metrics :
               (IF legacy_namespace THEN "stats.gauge." \o k \o ".value"
                ELSE "app.gauges." \o k \o ".value") \in Names
        /\ (IF legacy_namespace THEN "statsd.numStats"
            ELSE "app.internal.numStats") \in Names
        /\ Names \cap RegimeNames(~legacy_namespace) = {}

\* a legacy flush of a counter, a timer and a gauge
NamespaceRegimesSeen ==
    /\ Flushing
    /\ legacy_namespace
    /\ {"stats.a", "stats_counts.a", "stats.timers.a.mean",
        "stats.gauge.a.value", "statsd.numStats"} \subseteq Names

(***************************************************************************)
(* C16: a flush emits one receive.<t>.count and one receive.<t>.duration   *)
(* for exactly the types t of which a message was taken in since the       *)
(* previous flush, the count being the number of those messages, and       *)
(* leaves by_type and process_timings empty.                               *)
(***************************************************************************)
ReceiveCountsIngested ==
    Completed =>
        /\ \A t \in {"c", "ms", "g", "m", "p", "x"} :
               LET count == SummaryName("receive." \o t \o ".count")
                   duration == SummaryName("receive." \o t \o ".duration")
               IN  IF t \in DOMAIN before.ingested
                   THEN /\ Occurrences(count) = 1
                        /\ Occurrences(duration) = 1
                        /\ ValuesOf(count) = {RInt(before.ingested[t])}
                   ELSE Named(count) = {} /\ Named(duration) = {}
        /\ by_type = EmptyDict
        /\ process_timings = EmptyDict

(***************************************************************************)
(* C17: update(d) with d >= 0 adds one to the histogram's count and marks  *)
(* the meter once; update(d) with d < 0 changes neither; so, as long as    *)
(* clear() was not called, the two counts are equal.                       *)
(***************************************************************************)
UpdateCountsBoth ==
    /\ called.op = "update" =>
           IF called.duration >= 0
           THEN /\ histogram.count = called.histogram.count + 1
                /\ calls.count = RAdd(called.calls.count, RInt(1))
           ELSE histogram = called.histogram /\ calls = called.calls
    /\ called.op = "tick" =>
           histogram.count = called.histogram.count
               /\ calls.count = called.calls.count
    /\ ~cleared => RInt(histogram.count) = calls.count

\* a negative duration after two recorded ones
UpdateCountsBothSeen ==
    /\ called.op = "update"
    /\ called.duration < 0
    /\ ~cleared
    /\ histogram.count = 2

(***************************************************************************)
(* C18: the sample of a timer reporter never stores more than 1028         *)
(* entries, nor more than the updates it has counted, and the histogram's  *)
(* count is at least the number of entries stored.                         *)
(***************************************************************************)
ReservoirBounded ==
    /\ histogram.sample.size <= 1028
    /\ histogram.sample.size <= histogram.sample.count
    /\ histogram.sample.size <= histogram.count

\* an update after the sample was full
ReservoirBoundedSeen ==
    /\ called.op = "update"
    /\ called.histogram.sample.size = 1028
    /\ histogram.sample.count = 1030

(***************************************************************************)
(* C19: a source of report_stats that fails (its file cannot be opened or  *)
(* read, its function raises) is logged under its name, every other        *)
(* source of the list is still read and its metrics sent, and report_stats *)
(* does not raise.                                                         *)
(***************************************************************************)
Fails(source, system) ==
    \/ source.filename # None /\ ~system.files[SourceName(source)].opened
    \/ source.filename # None /\ ~system.files[SourceName(source)].read
    \/ ~Parsed(source, system).ok

RECURSIVE MetricsOf(_, _)
MetricsOf(stats, system) ==
    IF stats = <<>> THEN <<>>
    ELSE (IF Fails(Head(stats), system) THEN <<>>
          ELSE send_metrics(Parsed(Head(stats), system).val))
             \o MetricsOf(Tail(stats), system)

FailuresAreIsolated ==
    collected.called =>
        /\ ~collected.raised
        /\ collected.deferreds = Len(collected.stats)
        /\ collected.sent = MetricsOf(collected.stats, collected.system)
        /\ collected.logged =
               [i \in 1..Len(SelectSeq(collected.stats,
                                       LAMBDA x : Fails(x, collected.system)))
                   |-> SourceName(SelectSeq(collected.stats,
                           LAMBDA x : Fails(x, collected.system))[i])]

(***************************************************************************)
(* C20: each (name, value) pair the collector sends arrives as a gauge:    *)
(* once delivered, the gauge of that name holds the value, whatever was    *)
(* reported for the name before.                                           *)
(***************************************************************************)
CollectedAreGauges ==
    (collected.called /\ wire = <<>>) =>
        \A i \in DOMAIN collected.sent :
            LET sent == Routed(collected.sent[i])
            IN  /\ sent.key \in DOMAIN gauge_metrics
                /\ gauge_metrics[sent.key] = ParseFloat(sent.fields[1]).val

(***************************************************************************)
(* C21: the value of an option is the one the command line gives it; when  *)
(* the command line gives none, the one of the [statsd] section of the     *)
(* config file, coerced to the option's type; when neither, its default.   *)
(***************************************************************************)
\* the positions of the command line that give the option a value
Given(item) ==
    {i \in DOMAIN options.argv :
        i % 2 = 1 /\ options.argv[i] = <<"-", "-">> \o Parameter(item).name}
InConfig(item) ==
    /\ Given("config") # {}
    /\ options.file.exists
    /\ item \in DOMAIN options.file.statsd
Typed(item, text) ==
    IF Parameter(item).type = "int" THEN DigitsVal(text) ELSE text

OptionPrecedence ==
    options.parsed =>
        /\ \A item \in Declared :
               GetItem(options, item) =
                   IF Given(item) # {}
                   THEN Typed(item, options.argv[
                            (CHOOSE i \in Given(item) :
                                 \A j \in Given(item) : j <= i) + 1])
                   ELSE IF InConfig(item)
                   THEN Typed(item, options.file.statsd[item])
                   ELSE Parameter(item).default
        \* test_defaults, test_support_default_not_in_config
        /\ options.argv = <<>> =>
               /\ GetItem(options, "test") = <<"d", "e", "f", "a", "u", "l", "t">>
               /\ GetItem(options, "number") = 5
        \* test_ensure_config_values_coerced
        /\ (options.argv = <<<<"-", "-", "c", "o", "n", "f", "i", "g">>, <<"f">>>>
                /\ options.file = ConfigFile([item \in {"number"} |-> <<"1", "0">>])) =>
               GetItem(options, "number") = 10
        \* test_cmdline_overrides_config
        /\ (options.argv = <<<<"-", "-", "c", "o", "n", "f", "i", "g">>, <<"f">>, <<"-", "-", "t", "e", "s", "t">>, <<"c", "m", "d", "l", "i", "n", "e">>>>
                /\ options.file =
                       ConfigFile([item \in {"test"} |-> <<"c", "o", "n", "f", "i", "g", "v", "a", "l", "u", "e">>])) =>
               GetItem(options, "test") = <<"c", "m", "d", "l", "i", "n", "e">>

\* the command line gives one option, the config file both
OptionPrecedenceSeen ==
    /\ options.parsed
    /\ Given("test") # {}
    /\ Given("number") = {}
    /\ InConfig("test")
    /\ InConfig("number")
    /\ GetItem(options, "number") = 10

(***************************************************************************)
(* C22: a completed flush leaves every timer with an empty list; the       *)
(* samples accepted since the previous flush are all in the lists it       *)
(* reports, so each is reported by one flush; a timer that got no sample   *)
(* since the previous flush emits nothing and is not counted in            *)
(* flush.timer.count.                                                      *)
(***************************************************************************)
RECURSIVE Held(_, _)
Held(tm, keys) ==
    IF keys = {} THEN 0
    ELSE LET k == CHOOSE x \in keys : TRUE
         IN  Len(tm[k]) + Held(tm, keys \ {k})
Taken(counts) == IF "ms" \in DOMAIN counts THEN counts["ms"] ELSE 0
Busy(tm) == {k \in DOMAIN tm : tm[k] # <<>>}
TimerSamplesOf(k) ==
    {i \in DOMAIN output :
        \E item \in TimerItemNames(flush_args[2]) :
            output[i][1] = TimerName(k, item)}

TimersFlushedOnce ==
    /\ ~Flushing => Held(timer_metrics, DOMAIN timer_metrics) = Taken(ingested)
    /\ Completed =>
           /\ \A k \in DOMAIN timer_metrics : timer_metrics[k] = <<>>
           /\ DOMAIN timer_metrics = DOMAIN before.timer_metrics
           /\ Held(before.timer_metrics, DOMAIN before.timer_metrics)
                  = Taken(before.ingested)
           /\ \A k \in DOMAIN before.timer_metrics :
                  IF k \in Busy(before.timer_metrics)
                  THEN /\ Cardinality(Named(TimerName(k, ".lower"))) = 1
                       /\ Cardinality(Named(TimerName(k, ".mean"))) = 1
                       /\ ~lightweight_mode =>
                              ValuesOf(TimerName(k, ".count"))
                                  = {RInt(Len(before.timer_metrics[k]))}
                  ELSE TimerSamplesOf(k) = {}
           /\ ValuesOf(SummaryName("flush.timer.count"))
                  = {RInt(Cardinality(Busy(before.timer_metrics)))}

(***************************************************************************)
(* C23: a counter message processed between two steps of a flush does not  *)
(* make the flush fail, and its contribution is reported by one count      *)
(* sample, of this flush or of the next: once the flush is over, what      *)
(* each key has not had reported is what its counter holds.                *)
(***************************************************************************)
InterleavedIngestKept ==
    /\ gen.error = NoError
    /\ ~gen.running =>
           \A k \in DOMAIN owed \cup DOMAIN counter_metrics :
               Unreported(k) = InCounter(k)


(***************************************************************************)
(* C24: counter conservation under serialized events.  After any sequence  *)
(* of whole process() and whole flush() calls, with delete-idle on or off, *)
(* for every key the count samples emitted so far plus the value now held  *)
(* in counter_metrics (0 if the key is absent) equal the contributions of  *)
(* the accepted counter messages for that key: owed holds the              *)
(* contributions less the counts emitted, and it equals what is held.      *)
(***************************************************************************)
CountersConserved ==
    ~gen.running =>
        \A k \in DOMAIN owed \cup DOMAIN counter_metrics :
            Unreported(k) = InCounter(k)

(***************************************************************************)
(* C25: type isolation.  When process() accepts a message of type c, ms,   *)
(* g or m for key k, only the entry for k of that type's accumulator map   *)
(* changes, and of by_type and process_timings only the entry of that      *)
(* type: every other entry of the map, the other accumulator maps and the  *)
(* rest of the processor stay as they were, so that one key sent with two  *)
(* types is held twice, once in each map.                                  *)
(***************************************************************************)
OnlyAt(old, new, k) ==
    /\ DOMAIN new = DOMAIN old \cup {k}
    /\ \A j \in DOMAIN old : j # k => new[j] = old[j]

TakenAs(types) ==
    /\ lastop = "process"
    /\ ~failed
    /\ raised = NoError
    /\ lastkey # NoKey
    /\ Join(lastkey[3]) \in types

Isolated(type, k) ==
    /\ IF type = "c" THEN OnlyAt(counter_metrics, counter_metrics', k)
       ELSE counter_metrics' = counter_metrics
    /\ IF type = "ms" THEN OnlyAt(timer_metrics, timer_metrics', k)
       ELSE timer_metrics' = timer_metrics
    /\ IF type = "g" THEN OnlyAt(gauge_metrics, gauge_metrics', k)
       ELSE gauge_metrics' = gauge_metrics
    /\ IF type = "m" THEN OnlyAt(meter_metrics, meter_metrics', k)
       ELSE meter_metrics' = meter_metrics
    /\ plugin_metrics' = plugin_metrics
    /\ OnlyAt(by_type, by_type', type)
    /\ OnlyAt(process_timings, process_timings', type)
    /\ UNCHANGED <<config, last_flush_duration, last_process_duration>>

TypeIsolation ==
    [][TakenAs({"c", "ms", "g", "m"})' =>
           Isolated(Join(lastkey'[3]), Join(lastkey'[2]))]_vars

\* a:2|ms is taken after a:1|c: the key is held in both maps
TypeIsolationSeen ==
    /\ TakenAs({"ms"})
    /\ Join(lastkey[2]) = "a"
    /\ "a" \in DOMAIN counter_metrics
    /\ counter_metrics["a"] = RInt(1)
    /\ timer_metrics["a"] = <<RInt(2)>>

(***************************************************************************)
(* C26: summary consistency.  Every flush emits numStats and, for each of  *)
(* the five categories counter, timer, gauge, meter and plugin, one        *)
(* flush.<n>.count and one flush.<n>.duration sample; each count is the    *)
(* number of keys of the category that yielded a batch in this flush (for  *)
(* timers, the keys that held at least one duration), and numStats is the  *)
(* sum of the five counts.                                                 *)
(***************************************************************************)
Blocks(category) ==
    IF category = "counter" THEN Cardinality(DOMAIN before.counter_metrics)
    ELSE IF category = "timer"
    THEN Cardinality({k \in DOMAIN before.timer_metrics :
                         before.timer_metrics[k] # <<>>})
    ELSE IF category = "gauge" THEN Cardinality(DOMAIN before.gauge_metrics)
    ELSE IF category = "meter" THEN Cardinality(DOMAIN before.meter_metrics)
    ELSE Cardinality(DOMAIN before.plugin_metrics)

FlushCountName(category) == SummaryName("flush." \o category \o ".count")
FlushCount(category) == CHOOSE v \in ValuesOf(FlushCountName(category)) : TRUE

SummaryConsistent ==
    Flushing =>
        /\ Cardinality(Named(SummaryName("numStats"))) = 1
        /\ \A i \in DOMAIN Categories :
               /\ Cardinality(Named(FlushCountName(Categories[i]))) = 1
               /\ Cardinality(Named(SummaryName("flush." \o Categories[i]
                                                    \o ".duration"))) = 1
               /\ FlushCount(Categories[i]) = RInt(Blocks(Categories[i]))
        /\ ValuesOf(SummaryName("numStats")) =
               {RSum([i \in DOMAIN Categories |-> FlushCount(Categories[i])])}
====
